---- MODULE Spec2Model ----
(***************************************************************************)
(* The polling orchestrator of the job notifier: main.py's scheduler loop  *)
(* and poll_once, the SQLite seen-set of state.py and safe_fetch of        *)
(* fetchers/base.py, as one state machine.                                 *)
(*                                                                         *)
(* One control thread runs main()'s loop and poll_once; one worker per     *)
(* dispatched fetcher runs safe_fetch.  The filter and the notifier are    *)
(* called by the control thread; what they answer for a posting is an      *)
(* input: a posting carries the verdict filter_job gives on it, and every  *)
(* notify call may return True or False.                                   *)
(***************************************************************************)
EXTENDS Integers, Sequences, FiniteSets, TLC

\* ---------------------------------------------------------------- bounds

\* The wall clock just before the first tick; ticks read time.time() later.
StartTime == 2
\* No tick starts after MaxTime.
MaxTime == 4
\* A fetch returns at most MaxJobs postings.
MaxJobs == 2
\* The process is killed at most MaxCrashes times.
MaxCrashes == 1

\* Seconds between two consecutive tick starts (the sleep plus the tick).
Steps == {1, 2}

Uids == {"u1", "u2"}

\* What filter_job does on a posting: (True, kws), (False, kws), or raises.
Verdicts == {"pass", "reject", "raise"}

\* Two registries build_fetchers can return: two named sources, and two
\* configurations of one fetcher class that both omit "name". uids: the
\* identities of the postings the source's site can list.
RegUnique ==
  << [group |-> "g1", name |-> "A", interval |-> 1, uids |-> Uids],
     [group |-> "g2", name |-> "B", interval |-> 2, uids |-> Uids] >>
RegDup ==
  << [group |-> "g1", name |-> "Cls", interval |-> 2, uids |-> Uids],
     [group |-> "g1", name |-> "Cls", interval |-> 1, uids |-> Uids] >>
Registries == {RegUnique, RegDup}

\* The same two registries over sites that list no posting.
Quiet(r) == [f \in DOMAIN r |-> [r[f] EXCEPT !.uids = {}]]

QuietRegistries == {Quiet(RegUnique), Quiet(RegDup)}

Fetchers == {1, 2}

VARIABLES
  reg,          \* fetchers: the list of (fetcher, interval) main() built
  clock,        \* the last value time.time() returned to poll_once (now)
  last_polled,  \* main()'s dict key -> time of last dispatch
  pc,           \* where the control thread is
  fut,          \* per fetcher, the state of its future in this tick
  cur,          \* the fetcher whose list is being processed
  jobs,         \* the postings of that list not yet processed
  db,           \* the SQLite file (disk) and the connection's open transaction (txn)
  crashes,      \* how often the process was killed
  shutdown,     \* main.py's global _shutdown
  ev,           \* history: the last call the program made
  tick,         \* history: what happened in the current tick
  life,         \* history: what happened since the database file was created
  environ,      \* os.environ: DRY_RUN and the webhook variables
  rate_limit_cooldowns,  \* discord_notifier's dict webhook -> end of cooldown
  limited,      \* history: per webhook, the last 429 that carried a retry-after
  app_config    \* the AppConfig main loaded: poll_interval_seconds and sources

\* What discord_notifier.py reads and keeps, and the configuration.
notifier == <<environ, rate_limit_cooldowns, limited, app_config>>

vars == <<reg, clock, last_polled, pc, fut, cur, jobs, db, crashes, shutdown, ev,
          tick, life, environ, rate_limit_cooldowns, limited, app_config>>

\* ------------------------------------------------------- state.py: StateStore

Rows(d) == d.disk \cup d.txn

is_seen_never(d, uid) == FALSE

\* SELECT 1 FROM seen_items WHERE uid = ?
is_seen(d, uid) == \E r \in Rows(d) : r.uid = uid

\* INSERT OR IGNORE: uid is the primary key, a second row for it is dropped.
insert_always(d, row) == [d EXCEPT !.txn = @ \cup {row}]

insert_or_replace(d, row) ==
  [disk |-> {r \in d.disk : r.uid # row.uid},
   txn |-> {r \in d.txn : r.uid # row.uid} \cup {row}]

insert_or_ignore(d, row) ==
  IF \E r \in Rows(d) : r.uid = row.uid
  THEN d
  ELSE [d EXCEPT !.txn = @ \cup {row}]

\* self._conn.commit()
commit(d) == [disk |-> d.disk \cup d.txn, txn |-> {}]

\* The row of line 34; now: what datetime.now() gives.
Row(uid, source_group, url, now) ==
  [uid |-> uid, first_seen_ts |-> now, source_group |-> source_group, url |-> url]

mark_seen_nocommit(d, uid, source_group, url, now) ==
  insert_or_ignore(d, Row(uid, source_group, url, now))

mark_seen_lost(d, uid, source_group, url, now) == d

mark_seen(d, uid, source_group, url, now) ==
  commit(insert_or_ignore(d, Row(uid, source_group, url, now)))

count(d) == Cardinality(Rows(d))

\* What a killed process leaves: the file, without the open transaction.
after_crash(d) == [disk |-> d.disk, txn |-> {}]

\* ------------------------------------------------------- postings

\* The postings fetcher f can return: u1 always passes the filter, u2 comes
\* with any verdict.
JobsOf(f) ==
  {j \in [uid : reg[f].uids, sg : {reg[f].group}, v : Verdicts] :
     j.uid = "u1" => j.v = "pass"}

SeqsUpTo(S, n) == UNION {[1..k -> S] : k \in 0..n}

\* The lists fetch() of fetcher f can return.
FetchResults(f) == SeqsUpTo(JobsOf(f), MaxJobs)

\* job.url: a posting's page, one per identity.
JobUrl(job) == <<"page", job.uid>>

\* filter_job(job, config): the verdict the posting carries.
filter_job(job) == job.v

\* ------------------------------------------------------- main.py: poll_once

Key(f) == <<reg[f].group, reg[f].name>>

Get(d, k, default) == IF k \in DOMAIN d THEN d[k] ELSE default

Put(d, k, x) == [j \in DOMAIN d \cup {k} |-> IF j = k THEN x ELSE d[j]]

\* The loop with line 127 outside the test: every fetcher's entry is set to now.
RECURSIVE DueLoopStampAll(_, _, _, _)
DueLoopStampAll(i, now, lp, run) ==
  IF i > Len(reg)
  THEN [last_polled |-> lp, to_run |-> run]
  ELSE LET elapsed == now - Get(lp, Key(i), 0)
       IN  IF elapsed >= reg[i].interval
           THEN DueLoopStampAll(i + 1, now, Put(lp, Key(i), now), run \cup {i})
           ELSE DueLoopStampAll(i + 1, now, Put(lp, Key(i), now), run)

\* Lines 121-127: the loop over the registry, in order; each due fetcher is
\* added to fetchers_to_run and its key's entry is set to now.
RECURSIVE DueLoop(_, _, _, _)
DueLoop(i, now, lp, run) ==
  IF i > Len(reg)
  THEN [last_polled |-> lp, to_run |-> run]
  ELSE LET elapsed == now - Get(lp, Key(i), 0)
       IN  IF elapsed >= reg[i].interval
           THEN DueLoop(i + 1, now, Put(lp, Key(i), now), run \cup {i})
           ELSE DueLoop(i + 1, now, lp, run)

NoEvent == [op |-> "none"]

SeenUids(d) == {r.uid : r \in Rows(d)}

\* seen0: the identities seen when the tick began; sent, failed: those notify
\* answered True, False for; exc[f]: "store" when is_seen or mark_seen raised in
\* f's list, "filter" when filter_job did; solo[f]: the identity f returned alone and
\* relevant; acted: the list being processed has had a notify or mark_seen call;
\* sig: where the control thread was when the first signal arrived.
NewTick == [seen0 |-> {}, sent |-> {}, failed |-> {}, exc |-> [f \in Fetchers |-> "none"],
            solo |-> [f \in Fetchers |-> "-"], acted |-> FALSE, sig |-> "-"]

\* main, lines 210-225, with one of the registries regs, at time t.
\* os.environ as the deployment sets it: no DRY_RUN, and a webhook for the
\* variables HOOK_A, HOOK_A2 (the same one) and HOOK_B, none for HOOK_C.
Hooks ==
  [n \in {"HOOK_A", "HOOK_A2", "HOOK_B", "HOOK_C"} |->
     CASE n = "HOOK_B" -> "w2" [] n = "HOOK_C" -> "" [] OTHER -> "w1"]

StartWith(regs, t, envs, configs) ==
  /\ app_config \in configs
  /\ environ \in envs
  /\ rate_limit_cooldowns = << >>
  /\ limited = << >>
  /\ reg \in regs
  /\ clock = t
  /\ last_polled = << >>
  /\ pc = "sleep"
  /\ fut = [f \in Fetchers |-> "none"]
  /\ cur = 0
  /\ jobs = << >>
  /\ db = [disk |-> {}, txn |-> {}]
  /\ crashes = 0
  /\ shutdown = FALSE
  /\ ev = NoEvent
  /\ tick = NewTick
  \* marked: identities whose mark_seen call returned; old: those in the file
  \* when this process started; failed, notified: those notify answered False
  \* for in an earlier tick of this process, True for in this process.
  \* lastfail[f]: the time of f's last dispatch when its fetch raised, else 0.
  \* lastrun[f]: the time of f's last dispatch by this process, 0 before it.
  /\ life = [marked |-> {}, old |-> {}, failed |-> {}, notified |-> {},
             lastfail |-> [f \in Fetchers |-> 0],
             lastrun |-> [f \in Fetchers |-> 0]]

\* config.py line 27: the default of poll_interval_seconds.
DefaultPollInterval == 600

\* A configuration that leaves the interval to the default; its sources are
\* those of the registry.
DefaultConfig == [poll_interval_seconds |-> DefaultPollInterval, sources |-> << >>]

StartIn(regs, t, envs) == StartWith(regs, t, envs, {DefaultConfig})

Start(regs, t) == StartIn(regs, t, {Hooks})

Init == Start(Registries, StartTime)

\* poll_once, lines 117-140: read the clock, find the due fetchers, submit them.
\* With nothing due poll_once returns 0 at line 130.
PollDispatch ==
  /\ pc = "sleep"
  /\ ~shutdown
  /\ \E d \in Steps :
       LET now == clock + d
           due == DueLoop(1, now, last_polled, {})
       IN  /\ now <= MaxTime
           /\ clock' = now
           /\ last_polled' = due.last_polled
           /\ fut' = [f \in Fetchers |-> IF f \in due.to_run THEN "running" ELSE "none"]
           /\ pc' = IF due.to_run = {} THEN "sleep" ELSE "wait"
           /\ ev' = [op |-> "dispatch", run |-> due.to_run]
           /\ life' = [life EXCEPT
                         !.failed = @ \cup tick.failed,
                         !.lastrun = [f \in Fetchers |->
                                        IF f \in due.to_run THEN now ELSE @[f]]]
  /\ tick' = [NewTick EXCEPT !.seen0 = SeenUids(db)]
  /\ cur' = 0
  /\ jobs' = << >>
  /\ UNCHANGED <<notifier, reg, db, crashes, shutdown>>

\* safe_fetch in a worker: fetch() returns its list (read at Collect).
FetchReturn(f) ==
  /\ fut[f] = "running"
  /\ fut' = [fut EXCEPT ![f] = "done"]
  /\ ev' = NoEvent
  /\ life' = [life EXCEPT !.lastfail[f] = 0]
  /\ UNCHANGED <<notifier, reg, clock, last_polled, pc, cur, jobs, db, crashes, shutdown, tick>>

\* safe_fetch in a worker: fetch() raises, safe_fetch returns [].
FetchRaise(f) ==
  /\ fut[f] = "running"
  /\ fut' = [fut EXCEPT ![f] = "failed"]
  /\ ev' = NoEvent
  /\ life' = [life EXCEPT !.lastfail[f] = clock]
  /\ UNCHANGED <<notifier, reg, clock, last_polled, pc, cur, jobs, db, crashes, shutdown, tick>>

\* fetch() never returns.
FetchHang(f) ==
  /\ fut[f] = "running"
  /\ fut' = [fut EXCEPT ![f] = "hung"]
  /\ ev' = NoEvent
  /\ UNCHANGED <<notifier, reg, clock, last_polled, pc, cur, jobs, db, crashes, shutdown, tick, life>>

\* What future.result() gives for a finished future.
ResultOf(f) == IF fut[f] = "failed" THEN {<< >>} ELSE FetchResults(f)

\* The identity of a list that is one posting passing the filter, else "-".
Solo(l) == IF Len(l) = 1 /\ l[1].v = "pass" THEN l[1].uid ELSE "-"

\* Lines 143-146: as_completed yields a finished future; jobs = future.result().
Collect(f) ==
  /\ pc = "wait"
  /\ fut[f] \in {"done", "failed"}
  /\ \E l \in ResultOf(f) :
       /\ jobs' = l
       /\ tick' = [tick EXCEPT !.solo[f] = Solo(l), !.acted = FALSE]
  /\ cur' = f
  /\ fut' = [fut EXCEPT ![f] = IF @ = "failed" THEN "consumed_failed" ELSE "consumed"]
  /\ pc' = "job"
  /\ ev' = [op |-> "collect", f |-> f]
  /\ UNCHANGED <<notifier, reg, clock, last_polled, db, crashes, shutdown, life>>

Job == Head(jobs)

AfterExceptionReturn == "sleep"

\* The handler inside the loop over the postings: the list goes on.
AfterExceptionNextJob == "job"

\* Lines 165-166: the handler is inside the as_completed loop, which goes on.
AfterException == "wait"

\* An exception in lines 146-162: logged, the rest of this source's list is dropped.
Abort(where, kind) ==
  /\ pc' = AfterException
  /\ jobs' = << >>
  /\ ev' = [op |-> "except", f |-> cur, at |-> where]
  /\ tick' = [tick EXCEPT !.exc[cur] = kind]

\* Line 148 with the list exhausted: back to as_completed.
ListDone ==
  /\ pc = "job"
  /\ jobs = << >>
  /\ pc' = "wait"
  /\ ev' = [op |-> "list_done", f |-> cur]
  /\ UNCHANGED <<notifier, reg, clock, last_polled, fut, cur, jobs, db, crashes, shutdown, tick, life>>

\* Lines 149-150: the identity is in the seen-set, continue.
JobSeen ==
  /\ pc = "job"
  /\ jobs # << >>
  /\ is_seen(db, Job.uid)
  /\ jobs' = Tail(jobs)
  /\ ev' = [op |-> "skip", uid |-> Job.uid]
  /\ UNCHANGED <<notifier, reg, clock, last_polled, pc, fut, cur, db, crashes, shutdown, tick, life>>

\* Line 149: the SELECT raises (sqlite3.Error).
IsSeenRaises ==
  /\ pc = "job"
  /\ jobs # << >>
  /\ Abort("is_seen", "store")
  /\ UNCHANGED <<notifier, reg, clock, last_polled, fut, cur, db, crashes, shutdown, life>>

AfterRejectSkip == "job"

\* A rejection that leaves the list for the next future.
AfterRejectNextList == "wait"

\* Lines 154-157: a rejected posting goes to mark_seen.
AfterReject == "mark"

\* Lines 152-157: filter_job rejects.
JobRejected ==
  /\ pc = "job"
  /\ jobs # << >>
  /\ ~is_seen(db, Job.uid)
  /\ filter_job(Job) = "reject"
  /\ pc' = AfterReject
  /\ jobs' = IF pc' = "mark" THEN jobs ELSE Tail(jobs)
  /\ ev' = [op |-> "filter", uid |-> Job.uid, passed |-> FALSE]
  /\ UNCHANGED <<notifier, reg, clock, last_polled, fut, cur, db, crashes, shutdown, tick, life>>

\* Line 152: filter_job raises.
JobFilterRaises ==
  /\ pc = "job"
  /\ jobs # << >>
  /\ ~is_seen(db, Job.uid)
  /\ filter_job(Job) = "raise"
  /\ Abort("filter_job", "filter")
  /\ UNCHANGED <<notifier, reg, clock, last_polled, fut, cur, db, crashes, shutdown, life>>

AfterNotifyAlwaysMark(ok) == "mark"

AfterNotifyNeverMark(ok) == "job"

\* Lines 160-163: mark_seen follows a delivery, nothing follows a failure.
AfterNotify(ok) == IF ok THEN "mark" ELSE "job"

\* Lines 152-163: filter_job passes, notify is called and answers ok.
JobNotify ==
  /\ pc = "job"
  /\ jobs # << >>
  /\ ~is_seen(db, Job.uid)
  /\ filter_job(Job) = "pass"
  /\ \E ok \in BOOLEAN :
       /\ pc' = AfterNotify(ok)
       /\ jobs' = IF pc' = "mark" THEN jobs ELSE Tail(jobs)
       /\ ev' = [op |-> "notify", uid |-> Job.uid, ok |-> ok]
       /\ tick' = IF ok THEN [tick EXCEPT !.sent = @ \cup {Job.uid}, !.acted = TRUE]
                        ELSE [tick EXCEPT !.failed = @ \cup {Job.uid}, !.acted = TRUE]
       /\ life' = IF ok THEN [life EXCEPT !.notified = @ \cup {Job.uid}] ELSE life
  /\ UNCHANGED <<notifier, reg, clock, last_polled, fut, cur, db, crashes, shutdown>>

\* Lines 156 and 161: state.mark_seen(job.uid, job.source_group, job.url) returns.
MarkSeen ==
  /\ pc = "mark"
  /\ db' = mark_seen(db, Job.uid, Job.sg, JobUrl(Job), clock)
  /\ jobs' = Tail(jobs)
  /\ pc' = "job"
  /\ ev' = [op |-> "mark", uid |-> Job.uid]
  /\ tick' = [tick EXCEPT !.acted = TRUE]
  /\ life' = [life EXCEPT !.marked = @ \cup {Job.uid}]
  /\ UNCHANGED <<notifier, reg, clock, last_polled, fut, cur, crashes, shutdown>>

\* Lines 156 and 161: mark_seen raises, in the INSERT (nothing written) or in
\* the commit (the row stays in the connection's open transaction).
MarkSeenRaises ==
  /\ pc = "mark"
  /\ \/ db' = db
     \/ db' = mark_seen_nocommit(db, Job.uid, Job.sg, JobUrl(Job), clock)
  /\ Abort("mark_seen", "store")
  /\ UNCHANGED <<notifier, reg, clock, last_polled, fut, cur, crashes, shutdown, life>>

\* The as_completed loop ends when every submitted future has been yielded.
SomeConsumed == \E f \in Fetchers : fut[f] \in {"consumed", "consumed_failed"}

AllConsumed == \A f \in Fetchers : fut[f] \in {"none", "consumed", "consumed_failed"}

\* poll_once returns (line 168), main() sleeps (line 232).
PollReturn ==
  /\ pc = "wait"
  /\ AllConsumed
  /\ pc' = "sleep"
  /\ ev' = [op |-> "poll_return"]
  /\ UNCHANGED <<notifier, reg, clock, last_polled, fut, cur, jobs, db, crashes, shutdown, tick, life>>

\* The process is killed: memory is lost, the database file stays.
Crash ==
  /\ pc \notin {"down", "exited"}
  /\ crashes < MaxCrashes
  /\ crashes' = crashes + 1
  /\ pc' = "down"
  /\ db' = after_crash(db)
  /\ last_polled' = << >>
  /\ fut' = [f \in Fetchers |-> "none"]
  /\ cur' = 0
  /\ jobs' = << >>
  /\ ev' = [op |-> "crash"]
  /\ tick' = NewTick
  /\ life' = [life EXCEPT !.failed = {}, !.notified = {},
                          !.lastfail = [f \in Fetchers |-> 0],
                          !.lastrun = [f \in Fetchers |-> 0]]
  /\ shutdown' = FALSE
  /\ UNCHANGED <<notifier, reg, clock>>

\* main() starts again on the same database file; last_polled starts empty.
Restart ==
  /\ pc = "down"
  /\ pc' = "sleep"
  /\ ev' = [op |-> "start"]
  /\ life' = [life EXCEPT !.old = SeenUids(db)]
  /\ UNCHANGED <<notifier, reg, clock, last_polled, fut, cur, jobs, db, crashes, shutdown, tick>>

AfterSignalPreempt(p) == "sleep"

\* _handle_signal, lines 80-83: sets the flag and returns to the interrupted code.
AfterSignal(p) == p

\* SIGTERM or SIGINT is delivered to the main thread.
Signal ==
  /\ pc \notin {"down", "exited"}
  /\ shutdown' = TRUE
  /\ pc' = AfterSignal(pc)
  /\ tick' = [tick EXCEPT !.sig = IF shutdown THEN @ ELSE pc]
  /\ UNCHANGED <<notifier, reg, clock, last_polled, fut, cur, jobs, db, crashes, ev, life>>

\* main, lines 228 and 234-235: the loop test finds the flag set, the finally
\* clause closes the connection (an open transaction is rolled back).
Exit ==
  /\ pc = "sleep"
  /\ shutdown
  /\ pc' = "exited"
  /\ db' = after_crash(db)
  /\ ev' = [op |-> "exit"]
  /\ UNCHANGED <<notifier, reg, clock, last_polled, fut, cur, jobs, crashes, shutdown, tick, life>>

\* One tick of poll_once and the workers of its pool.
Poll ==
  \/ PollDispatch
  \/ \E f \in Fetchers : FetchReturn(f)
  \/ \E f \in Fetchers : FetchRaise(f)
  \/ \E f \in Fetchers : FetchHang(f)
  \/ \E f \in Fetchers : Collect(f)
  \/ ListDone
  \/ JobSeen
  \/ IsSeenRaises
  \/ JobRejected
  \/ JobFilterRaises
  \/ JobNotify
  \/ MarkSeen
  \/ MarkSeenRaises
  \/ PollReturn

\* The process, killed and started again at any point.
Next ==
  \/ Poll
  \/ Crash
  \/ Restart

Spec == Init /\ [][Next]_vars

\* The process, sent SIGTERM or SIGINT at any point.
SignalNext ==
  \/ Poll
  \/ Signal
  \/ Exit

SignalSpec == Init /\ [][SignalNext]_vars

\* The scheduler alone: sites that list nothing, started one time unit earlier
\* (the first tick still comes no earlier than the longest interval).
SchedInit == Start(QuietRegistries, StartTime - 1)

SchedNext ==
  \/ PollDispatch
  \/ \E f \in Fetchers : FetchReturn(f)
  \/ \E f \in Fetchers : FetchRaise(f)
  \/ \E f \in Fetchers : FetchHang(f)
  \/ \E f \in Fetchers : Collect(f)
  \/ ListDone
  \/ PollReturn

SchedSpec == SchedInit /\ [][SchedNext]_vars

\* --------------------------------------------------- properties

Durable(d, u) == \E r \in d.disk : r.uid = u

OnDisk(u) == Durable(db, u)

\* The control thread takes the step (the workers change neither pc nor jobs).
ControlStep == pc' # pc \/ jobs' # jobs

\* A step the pipeline properties leave aside: the store raised, or the
\* process was killed.
Fault == ev'.op \in {"except", "crash"}

\* is_seen or mark_seen raised in this tick.
StoreFault == \E f \in Fetchers : tick.exc[f] = "store"

\* C1: the seen-set holds at most one record per identity, and notify is never
\* called for a posting whose identity is in the seen-set.
C1_SeenOnceNotifiedNever ==
  /\ \A r1, r2 \in Rows(db) : r1.uid = r2.uid => r1 = r2
  /\ ev.op = "notify" => ev.uid \notin SeenUids(db)

\* A posting whose identity was notified and committed comes again and is skipped.
C1_Witness == ev.op = "skip" /\ ev.uid \in life.notified /\ OnDisk(ev.uid)

\* C2: a notify call that returns False commits nothing and goes on to the next
\* posting; when the posting of an identity whose notification failed in an
\* earlier tick is reached again, unseen and relevant, the call made for it is
\* notify (unless the seen-set lookup raises or the process is killed); a tick
\* whose source returns just that posting ends with notify attempted for it
\* again, unless the store raised or another task committed that identity.
C2_FailedNotifyRetried ==
  [][ /\ (ev'.op = "notify" /\ ~ev'.ok) =>
            /\ db' = db
            /\ pc' = "job"
            /\ ev'.uid \notin SeenUids(db')
      /\ ( /\ pc = "job" /\ jobs # << >>
           /\ Job.uid \in life.failed
           /\ Job.uid \notin SeenUids(db)
           /\ Job.v = "pass"
           /\ ControlStep ) =>
            \/ ev'.op = "notify" /\ ev'.uid = Job.uid
            \/ Fault
      /\ ev'.op = "poll_return" =>
            \A f \in Fetchers :
              ( /\ tick.solo[f] \in life.failed
                /\ tick.solo[f] \notin tick.seen0
                /\ ~StoreFault ) =>
                  tick.solo[f] \in tick.sent \cup tick.failed \cup SeenUids(db) ]_vars

\* A tick ends in which notify was called again for the one posting of a source,
\* whose notification had failed in an earlier tick.
C2_Witness ==
  /\ ev.op = "poll_return" /\ ~StoreFault
  /\ \E f \in Fetchers :
       /\ tick.solo[f] \in life.failed /\ tick.solo[f] \notin tick.seen0
       /\ tick.solo[f] \in tick.sent \cup tick.failed

\* C3: a posting the filter rejects goes straight to mark_seen, which commits its
\* identity before anything else is processed (unless the store raises or the
\* process is killed); notify is called only for a posting that passed the
\* filter, and never for a committed identity.
C3_RejectedCommittedNotNotified ==
  [][ /\ (ev'.op = "filter" /\ ~ev'.passed) =>
            /\ pc' = "mark"
            /\ Head(jobs').uid = ev'.uid
            /\ db' = db
      /\ (pc = "mark" /\ ControlStep) =>
            \/ ev'.op = "mark" /\ ev'.uid = Job.uid /\ Durable(db', Job.uid)
            \/ Fault
      /\ ev'.op = "notify" =>
            /\ jobs # << >> /\ Job.uid = ev'.uid /\ Job.v = "pass"
            /\ ~OnDisk(ev'.uid) ]_vars

\* An identity committed by a rejection in an earlier tick comes again (with
\* whatever verdict) and is skipped; it was never notified.
C3_Witness ==
  /\ ev.op = "skip" /\ ev.uid \in tick.seen0
  /\ crashes = 0 /\ ev.uid \notin life.notified

\* C4: when notify returns True the next call is mark_seen for that identity,
\* which puts it on disk and raises count() by one; the identity was not
\* notified before in this tick (no store error having occurred); a posting
\* whose identity is in the seen-set is skipped at the is_seen check, without a
\* filter or notify call (unless is_seen raises or the process is killed).
C4_NotifiedOnceThenSkipped ==
  [][ /\ (ev'.op = "notify" /\ ev'.ok) =>
            /\ pc' = "mark"
            /\ Head(jobs').uid = ev'.uid
            /\ ~StoreFault => ev'.uid \notin tick.sent
      /\ ev'.op = "mark" =>
            /\ Durable(db', ev'.uid)
            /\ count(db') = count(db) + 1
      /\ ( /\ pc = "job" /\ jobs # << >>
           /\ Job.uid \in SeenUids(db)
           /\ ControlStep ) =>
            \/ ev'.op = "skip" /\ ev'.uid = Job.uid
            \/ Fault ]_vars

\* A posting notified in an earlier tick is returned again and skipped.
C4_Witness ==
  /\ ev.op = "skip" /\ ev.uid \in life.notified
  /\ ev.uid \in tick.seen0 /\ count(db) = 1

\* C5: an identity whose mark_seen call returned is seen in every later state,
\* also after the process was killed and started again, and notify is never
\* called for it.
C5_MarkSeenDurable ==
  /\ \A u \in life.marked : is_seen(db, u)
  /\ ev.op = "notify" => ev.uid \notin life.marked

\* After a restart, a posting committed before it is returned and skipped.
C5_Witness ==
  /\ crashes > 0 /\ pc # "down"
  /\ ev.op = "skip" /\ ev.uid \in life.old /\ ev.uid \in life.marked

LoopSteps == {"dispatch", "collect", "skip", "filter", "notify", "mark",
              "list_done", "poll_return"}

\* C7: once is_seen or mark_seen has raised, the scheduler loop takes no further
\* step: no later posting, source or tick is processed.
C7_StorageErrorFatal == [][StoreFault => ev'.op \notin LoopSteps]_vars

\* C8: a tick in which fetcher 1 and fetcher 2 each returned one relevant posting,
\* of distinct identities unseen at the start of the tick, and in which notify
\* never answered False and the store did not raise, ends with both identities
\* notified and committed, whichever fetch was consumed first.
C8_BothNotifiedAndCommitted ==
  ( /\ ev.op = "poll_return"
    /\ tick.solo[1] # "-" /\ tick.solo[2] # "-" /\ tick.solo[1] # tick.solo[2]
    /\ {tick.solo[1], tick.solo[2]} \cap tick.seen0 = {}
    /\ tick.failed = {} /\ ~StoreFault ) =>
      /\ {tick.solo[1], tick.solo[2]} \subseteq tick.sent
      /\ OnDisk(tick.solo[1]) /\ OnDisk(tick.solo[2])

\* Such a tick ends, the fetch of fetcher 2 having been consumed first.
C8_Witness ==
  /\ ev.op = "poll_return" /\ cur = 1
  /\ tick.solo[1] = "u1" /\ tick.solo[2] = "u2"
  /\ tick.seen0 = {} /\ tick.failed = {} /\ ~StoreFault
  /\ tick.sent = {"u1", "u2"} /\ OnDisk("u1") /\ OnDisk("u2")

\* C9: at each tick a fetcher is dispatched exactly when the tick's start time
\* minus its last-run time (0 when it never ran) is at least its interval; the
\* last-run time of a dispatched fetcher becomes the tick's start time, and that
\* of a fetcher not dispatched is left as it was.
C9_DueIffElapsed ==
  [][ ev'.op = "dispatch" =>
        \A f \in Fetchers :
          /\ f \in ev'.run <=>
               clock' - Get(last_polled, Key(f), 0) >= reg[f].interval
          /\ f \in ev'.run => Get(last_polled', Key(f), 0) = clock'
          /\ f \notin ev'.run =>
               Get(last_polled', Key(f), 0) = Get(last_polled, Key(f), 0) ]_vars

\* C10: a tick never gets stuck: when the loop waits for a future and no fetch is
\* running or waiting to be consumed, poll_once can return.
C10_TickCompletes ==
  ( /\ pc = "wait"
    /\ \A f \in Fetchers : fut[f] \notin {"running", "done", "failed"} ) =>
      AllConsumed

\* The control thread is inside poll_once's loop over the futures.
InTick == {"wait", "job", "mark"}

\* C11: a signal only sets the flag: the control thread, the futures, the list
\* being processed and the store are where they were; a tick under way goes on
\* and ends only by poll_once returning with every future consumed; once the flag
\* is set no tick is started, and the step the loop takes between ticks is the
\* exit, which closes the store with every posting notified in the last tick
\* committed (unless the store raised in it).
C11_SignalFinishesTick ==
  [][ /\ (~shutdown /\ shutdown') =>
            /\ pc' = pc /\ jobs' = jobs /\ cur' = cur
            /\ fut' = fut /\ db' = db
      /\ (pc \in InTick /\ pc' \notin InTick) =>
            /\ ev'.op = "poll_return"
            /\ AllConsumed
      /\ shutdown => clock' = clock
      /\ (shutdown /\ pc = "sleep" /\ pc' # pc) => pc' = "exited"
      /\ pc' = "exited" =>
            /\ pc = "sleep" /\ shutdown
            /\ db'.txn = {}
            /\ ~StoreFault => \A u \in tick.sent : Durable(db', u) ]_vars

\* The process has exited after a signal that arrived between a successful
\* notify and its mark_seen: the posting is committed.
C11_Witness ==
  /\ pc = "exited" /\ tick.sig = "mark"
  /\ ~StoreFault /\ tick.sent # {}
  /\ \A u \in tick.sent : OnDisk(u)

\* C12: whenever the control thread is outside poll_once, no fetch of the last
\* tick is running or unconsumed and no posting of it is left to process: the
\* next tick starts only after the last one's fetches and commits.
C12_TicksNotPipelined ==
  pc \notin InTick =>
    /\ \A f \in Fetchers : fut[f] \in {"none", "consumed", "consumed_failed"}
    /\ jobs = << >>

\* poll_once has returned from a tick in which both fetchers ran and a posting
\* was notified and committed.
C12_Witness ==
  /\ ev.op = "poll_return" /\ pc = "sleep"
  /\ \A f \in Fetchers : fut[f] \in {"consumed", "consumed_failed"}
  /\ \E u \in tick.sent : OnDisk(u)

\* C13: at every tick after a dispatch of fetcher f whose fetch raised, f is
\* dispatched exactly when the tick's start time minus the time of that failed
\* dispatch is at least f's interval.
C13_FailedFetchRetriedOnSchedule ==
  [][ ev'.op = "dispatch" =>
        \A f \in Fetchers :
          life.lastfail[f] # 0 =>
            (f \in ev'.run <=> clock' - life.lastfail[f] >= reg[f].interval) ]_vars

\* --------------------------------------------- state.py: the store by itself

Groups == {"g1", "g2"}

Urls == {JobUrl([uid |-> u]) : u \in Uids}

\* mark_seen(uid, source_group, url), at the same or a later time.
StoreMarkSeen ==
  \E uid \in Uids, source_group \in Groups, url \in Urls, d \in {0, 1} :
    /\ clock + d <= MaxTime
    /\ clock' = clock + d
    /\ db' = mark_seen(db, uid, source_group, url, clock')
    /\ ev' = [op |-> "mark_seen", uid |-> uid, source_group |-> source_group,
              url |-> url, again |-> uid \in life.marked]
    /\ life' = [life EXCEPT !.marked = @ \cup {uid}]
    /\ UNCHANGED <<notifier, reg, last_polled, pc, fut, cur, jobs, crashes, shutdown, tick>>

\* is_seen(uid)
StoreIsSeen ==
  \E uid \in Uids :
    /\ ev' = [op |-> "is_seen", uid |-> uid, ret |-> is_seen(db, uid)]
    /\ UNCHANGED <<notifier, reg, clock, last_polled, pc, fut, cur, jobs, db, crashes, shutdown,
                   tick, life>>

\* count()
StoreCount ==
  /\ ev' = [op |-> "count", ret |-> count(db)]
  /\ UNCHANGED <<notifier, reg, clock, last_polled, pc, fut, cur, jobs, db, crashes, shutdown,
                 tick, life>>

\* close() and StateStore(db_path) on the same file.
StoreReopen ==
  /\ db' = after_crash(db)
  /\ ev' = [op |-> "open"]
  /\ UNCHANGED <<notifier, reg, clock, last_polled, pc, fut, cur, jobs, crashes, shutdown,
                 tick, life>>

StoreNext ==
  \/ StoreMarkSeen
  \/ StoreIsSeen
  \/ StoreCount
  \/ StoreReopen

StoreSpec == Init /\ [][StoreNext]_vars

\* C14: is_seen(id) answers whether mark_seen(id, ...) has been called before;
\* mark_seen(id, ...) makes id seen, leaves is_seen of every other identity as it
\* was and, when id was marked before, leaves count() as it was; count() is the
\* number of distinct identities marked.
C14_StoreAlgebra ==
  [][ /\ ev'.op = "is_seen" => (ev'.ret <=> ev'.uid \in life.marked)
      /\ ev'.op = "mark_seen" =>
            /\ is_seen(db', ev'.uid)
            /\ \A j \in Uids \ {ev'.uid} : is_seen(db', j) <=> is_seen(db, j)
            /\ count(db') = count(db) + (IF ev'.again THEN 0 ELSE 1)
      /\ ev'.op = "count" => ev'.ret = Cardinality(life.marked) ]_vars

\* An identity is marked a second time while another one is unmarked: count()
\* stays 1.
C14_Witness ==
  /\ ev.op = "mark_seen" /\ ev.again
  /\ count(db) = 1 /\ \E j \in Uids : ~is_seen(db, j)

\* C15: every record on disk stays on disk, with its first-seen timestamp, its
\* source group and its url, whatever operation comes next.
C15_SeenSetOnlyGrows == [][db.disk \subseteq db'.disk]_vars

\* An identity was marked again, later, with another source group and another
\* url: its record is the first one.
C15_Witness ==
  /\ ev.op = "mark_seen" /\ ev.again
  /\ \E r \in db.disk :
       /\ r.uid = ev.uid
       /\ r.source_group # ev.source_group
       /\ r.url # ev.url
       /\ r.first_seen_ts < clock

\* ------------------------------------------- models.py: identity derivation
\* A string is a sequence of characters; a character of the model is a
\* delimiter or a word of letters, which stands for the letters it is made of.

MaxPath == 3

Words == {"https", "HTTPS", "e", "E"}

\* Python's None, which is no string.
None == <<"None">>

IsNotNone(x) == x # None

\* bool(x) for x a string or None
Truthy(x) == x # None /\ x # << >>

\* x or ''
OrEmpty(x) == IF Truthy(x) THEN x ELSE << >>

LowerChar(c) ==
  CASE c = "HTTPS" -> "https" [] c = "E" -> "e" [] c = "A" -> "a" [] c = "B" -> "b"
    [] c = "US" -> "us" [] OTHER -> c

\* str.lower
lower(str) == [i \in 1..Len(str) |-> LowerChar(str[i])]

Min(S) == CHOOSE x \in S : \A y \in S : x <= y

Max(S) == CHOOSE x \in S : \A y \in S : x >= y

\* str.find(c, start) with positions counted from 1; 0 when c does not occur.
find(str, c, start) ==
  LET I == {i \in start..Len(str) : str[i] = c}
  IN  IF I = {} THEN 0 ELSE Min(I)

\* str.rfind(c), likewise.
rfind(str, c) ==
  LET I == {i \in 1..Len(str) : str[i] = c}
  IN  IF I = {} THEN 0 ELSE Max(I)

\* str[i:], positions counted from 1.
From(str, i) == SubSeq(str, i, Len(str))

RECURSIVE rstrip(_, _)
\* str.rstrip(c)
rstrip(str, c) ==
  IF str # << >> /\ str[Len(str)] = c
  THEN rstrip(SubSeq(str, 1, Len(str) - 1), c)
  ELSE str

\* urllib.parse: the schemes, among those the model can write, that take a
\* netloc and that take parameters.
uses_netloc == {<< >>, <<"https">>}

uses_params == {<< >>, <<"https">>}

\* urllib.parse._splitnetloc(url, 2)
splitnetloc(url) ==
  LET D == {i \in 3..Len(url) : url[i] \in {"/", "?", "#"}}
      delim == IF D = {} THEN Len(url) + 1 ELSE Min(D)
  IN  [netloc |-> SubSeq(url, 3, delim - 1), url |-> From(url, delim)]

\* urlsplit, the scheme: the text before the first ":" when it is made of
\* scheme characters and starts with a letter, lowercased.
split_scheme(url) ==
  LET i == find(url, ":", 1)
  IN  IF i > 1 /\ \A k \in 1..(i - 1) : url[k] \in Words
      THEN [scheme |-> lower(SubSeq(url, 1, i - 1)), url |-> From(url, i + 1)]
      ELSE [scheme |-> << >>, url |-> url]

\* urlsplit, the netloc: what follows a leading "//".
split_netloc(url) ==
  IF Len(url) >= 2 /\ SubSeq(url, 1, 2) = <<"/", "/">>
  THEN splitnetloc(url)
  ELSE [netloc |-> << >>, url |-> url]

\* The text before the first c and the text after it.
split_at(url, c) ==
  LET i == find(url, c, 1)
  IN  IF i > 0 THEN [url |-> SubSeq(url, 1, i - 1), rest |-> From(url, i + 1)]
      ELSE [url |-> url, rest |-> << >>]

urlsplit_query(scheme, netloc, fragment, q) ==
  [scheme |-> scheme, netloc |-> netloc, path |-> q.url, query |-> q.rest,
   fragment |-> fragment]

urlsplit_fragment(scheme, netloc, f) ==
  urlsplit_query(scheme, netloc, f.rest, split_at(f.url, "?"))

urlsplit_netloc(scheme, n) == urlsplit_fragment(scheme, n.netloc, split_at(n.url, "#"))

urlsplit_scheme(s) == urlsplit_netloc(s.scheme, split_netloc(s.url))

\* urllib.parse.urlsplit(url): scheme, netloc, fragment and query are taken
\* off the url in this order, and what is left is the path.
urlsplit(url) == urlsplit_scheme(split_scheme(url))

\* urllib.parse._splitparams(url)
splitparams(url) ==
  LET i == IF find(url, "/", 1) > 0 THEN find(url, ";", rfind(url, "/"))
           ELSE find(url, ";", 1)
  IN  IF i = 0 THEN [path |-> url, params |-> << >>]
      ELSE [path |-> SubSeq(url, 1, i - 1), params |-> From(url, i + 1)]

urlparse_params(sp, p) ==
  [scheme |-> sp.scheme, netloc |-> sp.netloc, path |-> p.path, params |-> p.params,
   query |-> sp.query, fragment |-> sp.fragment]

urlparse_split(sp) ==
  urlparse_params(sp, IF sp.scheme \in uses_params /\ find(sp.path, ";", 1) > 0
                      THEN splitparams(sp.path)
                      ELSE [path |-> sp.path, params |-> << >>])

\* urllib.parse.urlparse(url), called at models.py line 67
urlparse(url) == urlparse_split(urlsplit(url))

\* urllib.parse.urlunparse((scheme, netloc, path, "", "", "")), line 71
urlunparse(scheme, netloc, path) ==
  LET with_netloc ==
        \/ netloc # << >>
        \/ /\ scheme # << >> /\ scheme \in uses_netloc
           /\ ~(Len(path) >= 2 /\ SubSeq(path, 1, 2) = <<"/", "/">>)
      url1 == IF with_netloc /\ path # << >> /\ path[1] # "/"
              THEN <<"/">> \o path ELSE path
      url2 == IF with_netloc THEN <<"/", "/">> \o netloc \o url1 ELSE path
  IN  IF scheme # << >> THEN scheme \o <<":">> \o url2 ELSE url2

\* Lines 68-71, for the result of urlparse.
canonical(parsed) ==
  urlunparse(lower(IF parsed.scheme # << >> THEN parsed.scheme ELSE <<"https">>),
             lower(parsed.netloc), rstrip(parsed.path, "/"))

\* _canonicalize_url, lines 65-71
canonicalize_url(url) == canonical(urlparse(url))

\* hashlib.sha256(str.encode()).hexdigest()[:16]: written as the text it was
\* computed from, in brackets, so that different texts have different digests.
sha256_16(str) == <<"sha(">> \o str \o <<")">>

generate_uid_url_first(source_group, raw_id, url, title, company, location, posted_at) ==
  IF Truthy(url)
  THEN source_group \o <<":", "url", ":">>
         \o sha256_16(source_group \o <<":">> \o canonicalize_url(url))
  ELSE source_group \o <<":">> \o OrEmpty(raw_id)

\* The tier generate_uid resolves in: the tests of lines 52 and 55, in order.
tier_of(raw_id, url) ==
  IF Truthy(raw_id) THEN "raw" ELSE IF Truthy(url) THEN "url" ELSE "hash"

\* Job.generate_uid, lines 36-62
generate_uid(source_group, raw_id, url, title, company, location, posted_at) ==
  CASE tier_of(raw_id, url) = "raw" ->
         source_group \o <<":">> \o raw_id
    [] tier_of(raw_id, url) = "url" ->
         source_group \o <<":", "url", ":">>
           \o sha256_16(source_group \o <<":">> \o canonicalize_url(url))
    [] tier_of(raw_id, url) = "hash" ->
         source_group \o <<":", "hash", ":">>
           \o sha256_16(source_group \o <<":">> \o OrEmpty(title) \o <<":">>
                          \o OrEmpty(company) \o <<":">> \o OrEmpty(location)
                          \o <<":">> \o OrEmpty(posted_at))

\* The arguments generate_uid is called with.
SourceGroups == {<<"g">>, <<"h">>}

RawIds == {None, << >>, <<"1">>, <<"2">>}

Texts == {None, << >>, <<"e">>}

Dates == {None, <<"2026-01-01">>}

\* URLs: a scheme or none, a host or none, a path, a query or fragment or none.
UrlSchemes == {<< >>, <<"https", ":">>, <<"HTTPS", ":">>, <<"e", ":">>}

UrlHosts == {<< >>, <<"/", "/", "e">>, <<"/", "/", "E">>}

UrlPaths == SeqsUpTo({"/", "e", ";"}, MaxPath)

UrlTails == {<< >>, <<"?", "e">>, <<"#", "e">>}

SomeUrls ==
  {None, << >>, <<"https", ":", "/", "/", "e", "/", "e">>,
   <<"https", ":", "/", "/", "e", "/", "E", "/", "?", "e">>}

\* A call of generate_uid.
GenerateUid ==
  /\ ev = NoEvent
  /\ \E g \in SourceGroups, raw_id \in RawIds, url \in SomeUrls,
        title \in Texts, company \in Texts, location \in Texts, posted_at \in Dates :
    /\ ev' = [op |-> "generate_uid", source_group |-> g, raw_id |-> raw_id,
              url |-> url, title |-> title, company |-> company,
              location |-> location, posted_at |-> posted_at,
              tier |-> tier_of(raw_id, url),
              ret |-> generate_uid(g, raw_id, url, title, company, location,
                                   posted_at)]
    /\ UNCHANGED <<notifier, reg, clock, last_polled, pc, fut, cur, jobs, db, crashes,
                   shutdown, tick, life>>

\* generate_uid(g, url=...) for a URL and for one that differs from it in the
\* case of scheme and host, a trailing slash, the query or the fragment only.
GenerateUidOfUrl ==
  /\ ev = NoEvent
  /\ \E g \in SourceGroups, sch \in UrlSchemes, host \in UrlHosts, path \in UrlPaths,
     tail \in UrlTails :
    \E sch2 \in {x \in UrlSchemes : lower(x) = lower(sch)},
       host2 \in {x \in UrlHosts : lower(x) = lower(host)},
       path2 \in {path, path \o <<"/">>},
       tail2 \in UrlTails :
      /\ sch \o host \o path \o tail # << >>
      /\ sch2 \o host2 \o path2 \o tail2 # << >>
      /\ ev' = [op |-> "generate_uid_of_url", source_group |-> g,
                url |-> sch \o host \o path \o tail,
                other |-> sch2 \o host2 \o path2 \o tail2]
      /\ UNCHANGED <<notifier, reg, clock, last_polled, pc, fut, cur, jobs, db, crashes,
                     shutdown, tick, life>>

\* Arguments with the separator in them: a source group and a raw id that
\* contain ":", a raw id that reads as a URL-tier identity's tail (as the
\* amazon fetcher's raw ids read "amazon:<id>"), fields that contain ":".
PairUrl == <<"https", ":", "/", "/", "e", "/", "e">>

PairGroups == {<<"g">>, <<"g", ":", "1">>}

PairRawIds ==
  {None, <<"1">>, <<"1", ":", "1">>,
   <<"url", ":">> \o sha256_16(<<"g", ":">> \o canonicalize_url(PairUrl))}

PairUrls == {None, PairUrl}

PairTexts == {None, <<"e">>, <<"e", ":", "e">>}

PairArgs ==
  [source_group : PairGroups, raw_id : PairRawIds, url : PairUrls,
   title : PairTexts, company : PairTexts]

\* generate_uid(**a) for keyword arguments a; location and posted_at are left
\* at their default, None.
generate_uid_of(a) ==
  generate_uid(a.source_group, a.raw_id, a.url, a.title, a.company, None, None)

\* Two calls of generate_uid, side by side.
GenerateUidPair ==
  /\ ev = NoEvent
  /\ \E a \in PairArgs, b \in PairArgs :
    /\ ev' = [op |-> "generate_uid_pair", a |-> a, b |-> b,
              ret_a |-> generate_uid_of(a), ret_b |-> generate_uid_of(b)]
    /\ UNCHANGED <<notifier, reg, clock, last_polled, pc, fut, cur, jobs, db, crashes,
                   shutdown, tick, life>>

UidNext ==
  \/ GenerateUid
  \/ GenerateUidOfUrl
  \/ GenerateUidPair

UidSpec == Init /\ [][UidNext]_vars

\* generate_uid(g, url=U)
UidOfUrl(g, url) == generate_uid(g, None, url, None, None, None, None)

\* C16: with a non-empty raw id generate_uid returns the source group, a colon
\* and the raw id, whatever the other arguments are.
C16_RawIdTier ==
  (ev.op = "generate_uid" /\ Truthy(ev.raw_id)) =>
     ev.ret = ev.source_group \o <<":">> \o ev.raw_id

\* generate_uid was called with a raw id, a url and the other fields.
C16_Witness ==
  /\ ev.op = "generate_uid" /\ Truthy(ev.raw_id) /\ Truthy(ev.url)
  /\ Truthy(ev.title) /\ Truthy(ev.posted_at)
  /\ ev.ret = <<"g", ":", "1">>

\* C17: generate_uid(g, url=U) equals generate_uid(g, url=canonicalize(U)); two
\* URLs that differ only in the case of scheme or host, in a trailing slash of
\* the path, or in query or fragment get the same identity; canonicalizing a
\* canonical URL changes nothing.
C17_CanonicalUrlIdentity ==
  ev.op = "generate_uid_of_url" =>
    /\ UidOfUrl(ev.source_group, ev.url)
         = UidOfUrl(ev.source_group, canonicalize_url(ev.url))
    /\ UidOfUrl(ev.source_group, ev.url) = UidOfUrl(ev.source_group, ev.other)
    /\ canonicalize_url(canonicalize_url(ev.url)) = canonicalize_url(ev.url)

\* The text the hash tier digests: the group and the four fields, absent ones
\* as empty strings, joined by colons.
HashParts(e) ==
  e.source_group \o <<":">> \o (IF e.title \in {None, << >>} THEN << >> ELSE e.title)
    \o <<":">> \o (IF e.company \in {None, << >>} THEN << >> ELSE e.company)
    \o <<":">> \o (IF e.location \in {None, << >>} THEN << >> ELSE e.location)
    \o <<":">> \o (IF e.posted_at \in {None, << >>} THEN << >> ELSE e.posted_at)

\* C18: the identity comes from the raw id when one is given; from the digest
\* of group and canonical URL, as "g:url:<digest>", exactly when the raw id is
\* absent or empty and the URL is not; and from the digest of group, title,
\* company, location and posting date, as "g:hash:<digest>", exactly when
\* neither raw id nor URL is given.
C18_ThreeTiers ==
  ev.op = "generate_uid" =>
    LET g == ev.source_group
        no_raw == ev.raw_id \in {None, << >>}
        no_url == ev.url \in {None, << >>}
        url_tier == g \o <<":", "url", ":">>
                      \o sha256_16(g \o <<":">> \o canonicalize_url(ev.url))
        hash_tier == g \o <<":", "hash", ":">> \o sha256_16(HashParts(ev))
    IN  /\ ev.tier = "raw" => ev.ret = g \o <<":">> \o ev.raw_id
        /\ ev.tier = "url" <=> (no_raw /\ ~no_url)
        /\ ev.tier = "url" => ev.ret = url_tier
        /\ ev.tier = "hash" <=> (no_raw /\ no_url)
        /\ ev.tier = "hash" => ev.ret = hash_tier

\* generate_uid was called with an empty raw id and an empty URL and fell
\* through to the digest of the fields, a missing company as the empty string.
C18_Witness ==
  /\ ev.op = "generate_uid" /\ ev.raw_id = << >> /\ ev.url = << >>
  /\ ev.tier = "hash" /\ ev.title = <<"e">> /\ ev.company = None /\ ev.location = << >>
  /\ ev.posted_at = <<"2026-01-01">>
  /\ ev.ret = <<"g", ":", "hash", ":", "sha(", "g", ":", "e", ":", ":", ":",
                "2026-01-01", ")">>

(***************************************************************************)
(* The filter: filtering.py.  A text is a sequence of characters; the      *)
(* letter groups "years", "year", "to", "us" and "uk" are written as one   *)
(* character each, and are word characters like the letters and digits.    *)
(***************************************************************************)
MaxText == 3

Digits == {"1", "2", "3"}

Letters == {"a", "b", "A", "B", "years", "year", "to", "us", "US", "uk"}

\* \w of the regular expressions
IsWord(c) == c \in Letters \cup Digits

\* int(group) for a group of one or two digits
int(str) ==
  LET d(c) == CASE c = "1" -> 1 [] c = "2" -> 2 [] c = "3" -> 3
  IN  IF Len(str) = 1 THEN d(str[1]) ELSE 10 * d(str[1]) + d(str[2])

\* keyword in text
contains(text, keyword) ==
  \E i \in 1..(Len(text) + 1) :
    /\ i + Len(keyword) - 1 <= Len(text)
    /\ SubSeq(text, i, i + Len(keyword) - 1) = keyword

\* \b at the position before text[i]
boundary(text, i) ==
  LET before == i > 1 /\ IsWord(text[i - 1])
      after == i <= Len(text) /\ IsWord(text[i])
  IN  before # after

\* re.search(rf"\b{re.escape(keyword)}\b", text)
search_word(keyword, text) ==
  \E i \in 1..(Len(text) + 1) :
    /\ i + Len(keyword) - 1 <= Len(text)
    /\ SubSeq(text, i, i + Len(keyword) - 1) = keyword
    /\ boundary(text, i)
    /\ boundary(text, i + Len(keyword))

\* keyword_matches, lines 73-79
keyword_matches(keyword, text) ==
  LET keyword_lower == lower(keyword)
  IN  IF \E i \in 1..Len(keyword_lower) : keyword_lower[i] \in {" ", "-", ".", ","}
      THEN contains(text, keyword_lower)
      ELSE search_word(keyword_lower, text)

\* The positions after \s* from position i, and after \s+.
Spaces(t, i) == {j \in i..(Len(t) + 1) : \A k \in i..(j - 1) : t[k] = " "}

Spaces1(t, i) == Spaces(t, i) \ {i}

\* The positions after \d{1,2} from position i: the match is greedy, and no
\* part of the pattern that follows can start with a digit.
Num(t, i) ==
  LET two == i + 1 <= Len(t) /\ t[i] \in Digits /\ t[i + 1] \in Digits
      one == i <= Len(t) /\ t[i] \in Digits
  IN  IF two THEN {i + 2} ELSE IF one THEN {i + 1} ELSE {}

\* The positions after \+? from position i.
Plus(t, i) == {i} \cup (IF i <= Len(t) /\ t[i] = "+" THEN {i + 1} ELSE {})

\* (?:[-]\s*(\d{1,2})\s*)? from position i: position after it and the value of
\* its group, 0 when the group did not take part.
Range(t, i) ==
  {[pos |-> i, val |-> 0]} \cup
  (IF i <= Len(t) /\ t[i] = "-"
   THEN UNION {UNION {{[pos |-> d, val |-> int(SubSeq(t, e, j - 1))] :
                         d \in Spaces(t, j)} : j \in Num(t, e)} :
               e \in Spaces(t, i + 1)}
   ELSE {})

\* (?:to\s+(\d{1,2})\s+)? from position i, likewise.
To(t, i) ==
  {[pos |-> i, val |-> 0]} \cup
  (IF i <= Len(t) /\ t[i] = "to"
   THEN UNION {UNION {{[pos |-> d, val |-> int(SubSeq(t, e, j - 1))] :
                         d \in Spaces1(t, j)} : j \in Num(t, e)} :
               e \in Spaces1(t, i + 1)}
   ELSE {})

\* years?\b at position i
YearsAt(t, i) ==
  /\ i <= Len(t) /\ t[i] \in {"year", "years"}
  /\ (i = Len(t) \/ ~IsWord(t[i + 1]))

\* Line 23 with >= for >: a number equal to the ceiling rejects as well.
exceeds_or_reaches(text, max_years) ==
  \E i \in 1..Len(text) : \E j \in Num(text, i) : \E a \in Spaces(text, j) :
    \E b \in Plus(text, a) : \E c \in Spaces(text, b) :
      \E r \in Range(text, c) : \E g \in To(text, r.pos) :
        /\ YearsAt(text, g.pos)
        /\ \/ int(SubSeq(text, i, j - 1)) >= max_years
           \/ (r.val # 0 /\ r.val >= max_years)
           \/ (g.val # 0 /\ g.val >= max_years)

\* exceeds_experience_years, lines 19-25: some match of _EXPERIENCE_YEARS_RE
\* (lines 10-16) has a group above max_years.
exceeds_experience_years(text, max_years) ==
  \E i \in 1..Len(text) : \E j \in Num(text, i) : \E a \in Spaces(text, j) :
    \E b \in Plus(text, a) : \E c \in Spaces(text, b) :
      \E r \in Range(text, c) : \E g \in To(text, r.pos) :
        /\ YearsAt(text, g.pos)
        /\ \/ int(SubSeq(text, i, j - 1)) > max_years
           \/ r.val > max_years
           \/ g.val > max_years

\* Lines 97-104 in the other order: the allowed keywords looked at first.
allowed_before_excluded(location, location_config) ==
  IF location = << >> THEN TRUE
  ELSE LET location_lower == lower(location)
           excluded == location_config.excluded_keywords
           allowed == location_config.allowed_keywords
       IN  IF \E k \in 1..Len(allowed) : contains(location_lower, lower(allowed[k]))
           THEN TRUE
           ELSE IF \E k \in 1..Len(excluded) : contains(location_lower, lower(excluded[k]))
           THEN FALSE
           ELSE allowed = << >>

\* is_allowed_location, lines 82-110
is_allowed_location(location, location_config) ==
  IF location = << >> THEN TRUE
  ELSE LET location_lower == lower(location)
           excluded == location_config.excluded_keywords
           allowed == location_config.allowed_keywords
       IN  IF \E k \in 1..Len(excluded) : contains(location_lower, lower(excluded[k]))
           THEN FALSE
           ELSE IF \E k \in 1..Len(allowed) : contains(location_lower, lower(allowed[k]))
           THEN TRUE
           ELSE allowed = << >>

\* The outcomes of a call of filter_job.
Return(relevant, matched) ==
  [raised |-> "none", relevant |-> relevant, matched |-> matched]

Raise(exception) == [raised |-> exception, relevant |-> FALSE, matched |-> << >>]

\* The keywords of a list that match the text, in the order of the list.
Matching(keywords, text) ==
  SelectSeq(keywords, LAMBDA kw : keyword_matches(kw, text))

\* Lines 62-68: the level gate lets the posting through.
level_gate(level_keywords, searchable) ==
  (level_keywords.enabled /\ level_keywords.terms # << >>) =>
     \E k \in 1..Len(level_keywords.terms) :
        keyword_matches(level_keywords.terms[k], searchable)

\* Lines 38-40 never returning: the exclude keywords ignored.
excluded_never(exclude_keywords, searchable) == FALSE

\* Lines 38-40: some exclude keyword matches.
excluded(exclude_keywords, searchable) ==
  \E k \in 1..Len(exclude_keywords) : keyword_matches(exclude_keywords[k], searchable)

\* filter_job(job, config), lines 28-70.  config.filtering.has is the set of
\* attributes the filtering object has; reading another one raises.
filter_job_config(job, config) ==
  LET searchable == lower(job.title \o <<" ">> \o job.snippet \o <<" ">> \o job.company)
      filtering == config.filtering
      matched == Matching(filtering.include_keywords, searchable)
  IN  IF excluded(filtering.exclude_keywords, searchable)
      THEN Return(FALSE, << >>)
      ELSE IF "max_experience_years" \notin filtering.has
      THEN Raise("AttributeError")
      ELSE IF \E m \in filtering.max_experience_years :
                 exceeds_experience_years(searchable, m)
      THEN Return(FALSE, << >>)
      ELSE IF "location" \notin filtering.has
      THEN Raise("AttributeError")
      ELSE IF /\ filtering.location.enabled
              /\ ~is_allowed_location(job.location, filtering.location)
      THEN Return(FALSE, << >>)
      ELSE IF filtering.include_keywords # << >> /\ matched = << >>
      THEN Return(FALSE, << >>)
      ELSE IF ~level_gate(filtering.level_keywords, searchable)
      THEN Return(FALSE, matched)
      ELSE Return(TRUE, matched)

\* The postings filter_job is called with: every short title, some longer
\* ones, and three combinations of snippet, company and location.
TitleChars == {"a", "B", " ", "-", "3", "years"}

SomeTitles ==
  {<<"1", "3", " ", "years">>, <<"1", "1", "3", " ", "years">>,
   <<"3", "+", " ", "years">>, <<"3", "-", "1", "3", " ", "years">>,
   <<"3", " ", "to", " ", "1", "3", " ", "years">>}

Titles == SeqsUpTo(TitleChars, MaxText) \cup SomeTitles

Postings ==
  {[title |-> t, snippet |-> r[1], company |-> r[2], location |-> r[3]] :
     t \in Titles,
     r \in {<< << >>, <<"to">>, << >> >>, << <<"A">>, <<"to">>, <<"US">> >>,
            << << >>, <<"b">>, <<"uk">> >>}}

ExcludeLists == {<< >>, << <<"a">> >>, << <<"years">>, <<"B">> >>}

IncludeLists == {<< >>, << <<"b">>, <<"A">> >>, << <<"a", "-">> >>}

LevelConfigs ==
  {[enabled |-> FALSE, terms |-> << <<"3">> >>], [enabled |-> TRUE, terms |-> << >>],
   [enabled |-> TRUE, terms |-> << <<"3">> >>]}

LocationOff == [enabled |-> FALSE, allowed_keywords |-> << >>, excluded_keywords |-> << >>]

LocationOn ==
  [enabled |-> TRUE, allowed_keywords |-> << <<"us">> >>,
   excluded_keywords |-> << <<"uk">> >>]

\* What config.AppConfig builds: FilteringConfig has the three attributes of
\* config.py lines 21-23 and no others.
AppConfigs ==
  {[filtering |-> [has |-> {}, exclude_keywords |-> e, include_keywords |-> i,
                   level_keywords |-> l, max_experience_years |-> {},
                   location |-> LocationOff]] :
     e \in ExcludeLists, i \in IncludeLists, l \in LevelConfigs}

\* Configuration objects that also have the two attributes filter_job reads
\* at lines 43 and 48: max_experience_years, None (no element) or a number,
\* and location.
FullConfigs ==
  {[filtering |-> [has |-> {"max_experience_years", "location"},
                   exclude_keywords |-> e, include_keywords |-> i,
                   level_keywords |-> l, max_experience_years |-> x[1],
                   location |-> x[2]]] :
     e \in ExcludeLists, i \in IncludeLists, l \in LevelConfigs,
     x \in {<<{}, LocationOff>>, <<{2}, LocationOff>>, <<{}, LocationOn>>}}

FilterConfigs == AppConfigs \cup FullConfigs

\* A call of filter_job.
FilterJob ==
  /\ ev = NoEvent
  /\ \E job \in Postings, config \in FilterConfigs :
       ev' = [op |-> "filter_job", job |-> job, config |-> config,
              ret |-> filter_job_config(job, config)]
  /\ UNCHANGED <<notifier, reg, clock, last_polled, pc, fut, cur, jobs, db, crashes,
                 shutdown, tick, life>>

\* The texts exceeds_experience_years is called with: an expression of one of
\* the four forms, with the usual spacing, none or more, alone or inside a
\* sentence, and the numbers it mentions; and texts without an expression.
YearNumbers == {1, 2, 3, 12}

Ceilings == {1, 2, 3}

\* str(n) for a number of one or two digits
str_int(n) ==
  LET digit(k) == CASE k = 1 -> "1" [] k = 2 -> "2" [] k = 3 -> "3"
  IN  IF n < 10 THEN <<digit(n)>> ELSE <<digit(n \div 10), digit(n % 10)>>

YearExpressions ==
  UNION {UNION {
    {[text |-> str_int(n) \o sp \o <<"years">>, nums |-> {n}],
     [text |-> str_int(n) \o <<"+">> \o sp \o <<"year">>, nums |-> {n}],
     [text |-> str_int(n) \o <<"-">> \o str_int(m) \o sp \o <<"years">>,
      nums |-> {n, m}],
     [text |-> str_int(n) \o sp \o <<"-">> \o sp \o str_int(m) \o <<" ", "years">>,
      nums |-> {n, m}],
     [text |-> str_int(n) \o <<" ", "to", " ">> \o str_int(m) \o <<" ">> \o sp
                 \o <<"years">>,
      nums |-> {n, m}]} :
    sp \in {<< >>, <<" ">>, <<" ", " ">>}} : n \in YearNumbers, m \in YearNumbers}

NoYearExpressions ==
  {[text |-> t, nums |-> {}] :
     t \in {<< >>, <<"3">>, <<"years">>, <<"a", " ", "years">>,
            <<"3", "a", " ", "years">>, <<"3", " ", "years", "a">>,
            <<"3", "-", "years">>, <<"3", " ", "to", " ", "years">>,
            <<"3", "to", "years">>}}

ExperienceTexts ==
  {[text |-> pre \o e.text \o post, nums |-> e.nums] :
     e \in YearExpressions \cup NoYearExpressions,
     pre \in {<< >>, <<"a", " ">>}, post \in {<< >>, <<" ", "a">>}}

\* Texts whose only number in front of "years" has three or four digits, as
\* in the comment of line 9; nums is what (\d{1,2}) of line 11 captures of it.
LongNumbers == {<<"1", "1", "3">>, <<"3", "2", "1">>, <<"2", "1", "2", "3">>}

LongNumberTexts ==
  {[text |-> pre \o n \o sp \o <<"years">> \o post,
    nums |-> {int(SubSeq(n, Len(n) - 1, Len(n)))}] :
     n \in LongNumbers, sp \in {<< >>, <<" ">>},
     pre \in {<< >>, <<"a", " ">>}, post \in {<< >>, <<" ", "a">>}}

\* A call of exceeds_experience_years.
ExceedsExperienceYears ==
  /\ ev = NoEvent
  /\ \E e \in ExperienceTexts \cup LongNumberTexts, max_years \in Ceilings :
       ev' = [op |-> "exceeds_experience_years", text |-> e.text, nums |-> e.nums,
              max_years |-> max_years,
              ret |-> exceeds_experience_years(e.text, max_years)]
  /\ UNCHANGED <<notifier, reg, clock, last_polled, pc, fut, cur, jobs, db, crashes,
                 shutdown, tick, life>>

\* The locations and location settings is_allowed_location is called with.
MaxLocation == 3

Locations == SeqsUpTo({"us", "US", "uk", "a", " "}, MaxLocation)

LocationConfigs ==
  {[enabled |-> TRUE, allowed_keywords |-> al, excluded_keywords |-> ex] :
     al \in {<< >>, << <<"us">> >>, << <<"a">>, <<"US">> >>},
     ex \in {<< >>, << <<"uk">> >>, << <<"A">>, <<"uk">> >>}}

\* A call of is_allowed_location.
IsAllowedLocation ==
  /\ ev = NoEvent
  /\ \E location \in Locations, location_config \in LocationConfigs :
       ev' = [op |-> "is_allowed_location", location |-> location,
              location_config |-> location_config,
              ret |-> is_allowed_location(location, location_config)]
  /\ UNCHANGED <<notifier, reg, clock, last_polled, pc, fut, cur, jobs, db, crashes,
                 shutdown, tick, life>>

\* The keywords and the texts keyword_matches is called with; the text is
\* lowercased by its caller (line 34).
MatchKeywords ==
  {<<"a">>, <<"A">>, <<"a", "b">>, <<"a", " ", "b">>, <<"A", "-", "b">>,
   <<".", "a">>, <<"a", ",">>, <<"a", "+">>, <<"+", "a">>}

MatchTexts == SeqsUpTo({"a", "A", "b", " ", "-", "+", ".", ","}, MaxText)

\* A call of keyword_matches, as filter_job makes it.
KeywordMatches ==
  /\ ev = NoEvent
  /\ \E keyword \in MatchKeywords, text \in MatchTexts :
       ev' = [op |-> "keyword_matches", keyword |-> keyword, text |-> text,
              ret |-> keyword_matches(keyword, lower(text))]
  /\ UNCHANGED <<notifier, reg, clock, last_polled, pc, fut, cur, jobs, db, crashes,
                 shutdown, tick, life>>

FilterNext ==
  \/ FilterJob
  \/ ExceedsExperienceYears
  \/ IsAllowedLocation
  \/ KeywordMatches


FilterSpec == Init /\ [][FilterNext]_vars

\* The searchable text of a posting: title, snippet and company, lowercased.
SearchableOf(job) ==
  lower(job.title \o <<" ">> \o job.snippet \o <<" ">> \o job.company)

\* Some keyword of the list matches the text.
AnyMatches(keywords, text) ==
  \E k \in 1..Len(keywords) : keyword_matches(keywords[k], text)

\* C19: when some exclude keyword matches the searchable text, filter_job
\* returns (false, []) whatever the include keywords, the level terms, the
\* location and the experience settings are.
C19_ExcludeWins ==
  (/\ ev.op = "filter_job"
   /\ AnyMatches(ev.config.filtering.exclude_keywords, SearchableOf(ev.job)))
  => ev.ret = Return(FALSE, << >>)

\* filter_job was called for a posting that an exclude keyword matches, the
\* second of the list, in its company only, and that an include keyword and a
\* level term match as well, under a configuration of config.AppConfig.
C19_Witness ==
  /\ ev.op = "filter_job"
  /\ ev.config \in AppConfigs
  /\ ev.config.filtering.exclude_keywords = << <<"years">>, <<"B">> >>
  /\ ev.job.company = <<"b">>
  /\ ~AnyMatches(<< <<"years">>, <<"B">> >>, lower(ev.job.title))
  /\ AnyMatches(ev.config.filtering.include_keywords, SearchableOf(ev.job))
  /\ ev.config.filtering.level_keywords.enabled
  /\ AnyMatches(ev.config.filtering.level_keywords.terms, SearchableOf(ev.job))
  /\ ev.ret = [raised |-> "none", relevant |-> FALSE, matched |-> << >>]

\* The five stages of the filter, each letting the posting through.
StagesPass(job, config) ==
  LET f == config.filtering
      text == SearchableOf(job)
  IN  /\ ~AnyMatches(f.exclude_keywords, text)
      /\ \/ "max_experience_years" \notin f.has
         \/ f.max_experience_years = {}
         \/ \A m \in f.max_experience_years : ~exceeds_experience_years(text, m)
      /\ \/ "location" \notin f.has
         \/ ~f.location.enabled
         \/ is_allowed_location(job.location, f.location)
      /\ f.include_keywords = << >> \/ AnyMatches(f.include_keywords, text)
      /\ \/ ~f.level_keywords.enabled
         \/ f.level_keywords.terms = << >>
         \/ AnyMatches(f.level_keywords.terms, text)

\* C20: filter_job returns relevant = true exactly when the five stages all
\* let the posting through, and then returns the include keywords that match,
\* in the order of the configuration.
C20_AcceptedIffAllStagesPass ==
  ev.op = "filter_job" =>
    /\ (ev.ret.raised = "none" /\ ev.ret.relevant) <=> StagesPass(ev.job, ev.config)
    /\ StagesPass(ev.job, ev.config) =>
         ev.ret.matched = Matching(ev.config.filtering.include_keywords,
                                   SearchableOf(ev.job))

\* C21: the ceiling is inclusive: exceeds_experience_years is true exactly
\* when a number of an "N years", "N+ years", "N-M years" or "N to M years"
\* expression of the text is strictly greater than the ceiling.
C21_CeilingInclusive ==
  ev.op = "exceeds_experience_years" =>
    (ev.ret <=> \E n \in ev.nums : n > ev.max_years)

\* exceeds_experience_years was called with "1-2 years" inside a sentence and
\* the ceiling 2, and did not reject.
C21_Witness ==
  /\ ev.op = "exceeds_experience_years"
  /\ ev.text = <<"a", " ", "1", "-", "2", " ", "years", " ", "a">>
  /\ ev.max_years = 2
  /\ ev.ret = FALSE

\* The location holds some keyword of the list, whatever the case of either.
HoldsAny(location, keywords) ==
  \E k \in 1..Len(keywords) :
    \E i \in 1..(Len(location) + 1), j \in 0..Len(location) :
      lower(SubSeq(location, i, j)) = lower(keywords[k])

OccursIn(keyword, text) ==
  \E i \in 1..(Len(text) + 1), j \in 0..Len(text) :
    lower(SubSeq(text, i, j)) = lower(keyword)

\* The keyword occurs in the text as a word of its own: with no letter or
\* digit next to it on either side.
OccursAsWord(keyword, text) ==
  \E i \in 1..(Len(text) + 1), j \in 0..Len(text) :
    /\ lower(SubSeq(text, i, j)) = lower(keyword)
    /\ i = 1 \/ ~IsWord(text[i - 1])
    /\ j = Len(text) \/ ~IsWord(text[j + 1])

\* C23: whatever the case, a keyword with a space, a hyphen, a period or a
\* comma matches exactly when it occurs in the text, and any other keyword
\* exactly when it occurs there as a whole word.
C23_KeywordMatching ==
  ev.op = "keyword_matches" =>
    (ev.ret <=>
       IF \E k \in 1..Len(ev.keyword) : ev.keyword[k] \in {" ", "-", ".", ","}
       THEN OccursIn(ev.keyword, ev.text)
       ELSE OccursAsWord(ev.keyword, ev.text))

(***************************************************************************)
(* The notifier: discord_notifier.py, with config.get_webhook_url and      *)
(* config.is_dry_run.  The clock is time.time().                           *)
(***************************************************************************)

\* config.routing: source group -> name of the variable with its webhook.
Routing ==
  [g \in {"g1", "g2", "g3", "g4"} |->
     CASE g = "g1" -> "HOOK_A" [] g = "g2" -> "HOOK_B" [] g = "g3" -> "HOOK_A2"
       [] g = "g4" -> "HOOK_C"]

\* The source groups of the postings notify is called for; "g5" is not routed.
NotifyGroups == {"g1", "g2", "g3", "g4", "g5"}

\* os.environ with DRY_RUN unset, set to TRUE, and set to no.
Environs == {Hooks, Put(Hooks, "DRY_RUN", "TRUE"), Put(Hooks, "DRY_RUN", "no")}

\* str.lower for the values of DRY_RUN
LowerWord(w) == CASE w = "TRUE" -> "true" [] w = "Yes" -> "yes" [] OTHER -> w

\* config.is_dry_run, config.py lines 77-79
is_dry_run(env) == LowerWord(Get(env, "DRY_RUN", "false")) \in {"true", "1", "yes"}

\* config.get_webhook_url, config.py lines 63-74; "None" is Python's None.
get_webhook_url(routing, env, source_group) ==
  LET env_var == Get(routing, source_group, "None")
  IN  IF env_var \in {"None", ""} THEN "None"
      ELSE IF Get(env, env_var, "None") \in {"None", ""} THEN "None"
      ELSE env[env_var]

\* What the server answers to one POST: the status (0: no answer, the request
\* failed), and for a 429 the Retry-After header ("absent", a number of
\* seconds, or a date) and the body (an object with retry_after a number or
\* null, an object without it, or no JSON).
Answer(status, header, body) == [status |-> status, header |-> header, body |-> body]

RateLimits ==
  {Answer(429, "1", "2"), Answer(429, "date", "{}"), Answer(429, "absent", "2"),
   Answer(429, "absent", "html"), Answer(429, "absent", "null")}

ServerError == Answer(500, "absent", "html")

FinalAnswers ==
  {Answer(204, "absent", ""), Answer(404, "absent", "html"), Answer(0, "absent", "")}
    \cup RateLimits

\* stop_after_attempt(3), line 119
MaxAttempts == 3

\* The fallback of lines 133 and 135.
DefaultRetryAfter == 5

\* The answers to the successive POSTs of one call: server errors, then
\* possibly another answer.
AnswerSeqs ==
  {<<a>> : a \in FinalAnswers}
    \cup {<<ServerError, a>> : a \in {Answer(204, "absent", ""), Answer(429, "1", "2")}}
    \cup {<<ServerError, ServerError, a>> : a \in {Answer(204, "absent", ""), ServerError}}

\* float(x) and the retry_after of the body, for the texts of the model.
Seconds(x) == CASE x = "1" -> 1 [] x = "2" -> 2

\* What one pass through the body of _send_with_retry (lines 125-143) ends
\* with: "none" when it returns, else the exception; for a
\* DiscordRateLimitError its retry_after, or usable FALSE when that is None.
Outcome(exc, retry_after, usable) ==
  [exc |-> exc, retry_after |-> retry_after, usable |-> usable]

post(answer) ==
  IF answer.status = 0 THEN Outcome("ConnectionError", 0, FALSE)
  ELSE IF answer.status = 429
  THEN IF answer.header # "absent"
       THEN IF answer.header \in {"1", "2"}
            THEN Outcome("DiscordRateLimitError", Seconds(answer.header), TRUE)
            ELSE Outcome("ValueError", 0, FALSE)
       ELSE IF answer.body \in {"1", "2"}
            THEN Outcome("DiscordRateLimitError", Seconds(answer.body), TRUE)
            ELSE IF answer.body = "null"
            THEN Outcome("DiscordRateLimitError", 0, FALSE)
            ELSE Outcome("DiscordRateLimitError", DefaultRetryAfter, TRUE)
  ELSE IF answer.status >= 500 THEN Outcome("DiscordServerError", 0, FALSE)
  ELSE IF answer.status >= 400 THEN Outcome("HTTPError", 0, FALSE)
  ELSE Outcome("none", 0, FALSE)

\* The attempts the retry decorator (lines 117-122) allows.
attempts(answers) == MaxAttempts

\* _send_with_retry, lines 117-143: the body is run again after a
\* DiscordServerError, at most three times in all; the last outcome is its own.
send_with_retry(answers) ==
  LET tries == {i \in 1..Len(answers) :
                  \/ post(answers[i]).exc # "DiscordServerError"
                  \/ i >= attempts(answers)}
      n == Min(tries \cup {Len(answers)})
  IN  [outcome |-> post(answers[n]), requests |-> n]

\* How a call of notify ends.
Notified(raised, ret, requests, cooldowns) ==
  [raised |-> raised, ret |-> ret, requests |-> requests, cooldowns |-> cooldowns]

\* Line 97 without the test: a webhook in its cooldown is sent to.
in_cooldown_never(now, cooldowns, webhook_url) == FALSE

\* Lines 95-97
in_cooldown(now, cooldowns, webhook_url) == now < Get(cooldowns, webhook_url, 0)

\* notify, lines 83-114, for a posting of the source group, at time now.
notify(source_group, env, now, cooldowns, answers) ==
  LET webhook_url == get_webhook_url(Routing, env, source_group)
      sent == send_with_retry(answers)
  IN  IF is_dry_run(env) THEN Notified("none", TRUE, 0, cooldowns)
      ELSE IF webhook_url = "None" THEN Notified("none", FALSE, 0, cooldowns)
      ELSE IF in_cooldown(now, cooldowns, webhook_url)
      THEN Notified("none", FALSE, 0, cooldowns)
      ELSE IF sent.outcome.exc = "none"
      THEN Notified("none", TRUE, sent.requests, cooldowns)
      ELSE IF sent.outcome.exc = "DiscordRateLimitError"
      THEN IF sent.outcome.usable
           THEN Notified("none", FALSE, sent.requests,
                         Put(cooldowns, webhook_url, now + sent.outcome.retry_after))
           ELSE Notified("TypeError", FALSE, sent.requests, cooldowns)
      ELSE Notified("none", FALSE, sent.requests, cooldowns)

\* The retry-after a 429 answer stands for: the number of the header, without
\* a header that of the body, and the default when the body names none.  A
\* header that is no number and a body whose retry_after is null stand for none.
CarriesRetryAfter(answer) ==
  /\ answer.status = 429
  /\ \/ answer.header \in {"1", "2"}
     \/ answer.header = "absent" /\ answer.body # "null"

RetryAfterOf(answer) ==
  IF answer.header \in {"1", "2"} THEN Seconds(answer.header)
  ELSE IF answer.body \in {"1", "2"} THEN Seconds(answer.body)
  ELSE DefaultRetryAfter

\* A call of notify.  The event keeps the last answer of the server, if a
\* request was made.
Notify ==
  \E source_group \in NotifyGroups, answers \in AnswerSeqs :
    LET r == notify(source_group, environ, clock, rate_limit_cooldowns, answers)
        url == get_webhook_url(Routing, environ, source_group)
        last == IF r.requests = 0 THEN Answer(0, "absent", "") ELSE answers[r.requests]
    IN  /\ rate_limit_cooldowns' = r.cooldowns
        /\ ev' = [op |-> "discord_notify", source_group |-> source_group,
                  webhook_url |-> url, now |-> clock, raised |-> r.raised,
                  ret |-> r.ret, requests |-> r.requests, last |-> last]
        /\ limited' = IF r.requests > 0 /\ CarriesRetryAfter(last)
                      THEN Put(limited, url, [t |-> clock, r |-> RetryAfterOf(last)])
                      ELSE limited
        /\ UNCHANGED <<environ, app_config, reg, clock, last_polled, pc, fut, cur, jobs,
                       db, crashes, shutdown, tick, life>>

\* Time passes between two calls.
TimePasses ==
  /\ clock < MaxTime
  /\ clock' = clock + 1
  /\ UNCHANGED <<notifier, reg, last_polled, pc, fut, cur, jobs, db, crashes,
                 shutdown, ev, tick, life>>

NotifyInit == StartIn({RegUnique}, StartTime, Environs)

NotifyNext ==
  \/ Notify
  \/ TimePasses

NotifySpec == NotifyInit /\ [][NotifyNext]_vars

\* C24: a call of notify never raises; it returns true exactly when it runs
\* dry, without a request, or when its last POST was answered with success;
\* hence false without a routed webhook, in a cooldown, on a 429, after three
\* server errors and on any other failure of the request.
C24_NotifyResolves ==
  ev.op = "discord_notify" =>
    /\ ev.raised = "none"
    /\ ev.ret <=> \/ is_dry_run(environ) /\ ev.requests = 0
                  \/ /\ ~is_dry_run(environ)
                     /\ ev.webhook_url # "None"
                     /\ ev.requests > 0
                     /\ ev.last.status = 204

\* C25: when the last 429 answer for a webhook, to a call started at t, stood
\* for the retry-after r, a call routed to this webhook before t + r returns
\* false without a request, and a call at or after t + r sends; a call routed
\* to a webhook without such an answer sends, whatever the other webhooks'
\* cooldowns are.
C25_Cooldown ==
  [][(ev' # ev /\ ev'.op = "discord_notify" /\ ~is_dry_run(environ)
        /\ ev'.webhook_url # "None") =>
       IF ev'.webhook_url \in DOMAIN limited
       THEN LET W == limited[ev'.webhook_url]
            IN  IF ev'.now < W.t + W.r
                THEN ~ev'.ret /\ ev'.requests = 0
                ELSE ev'.requests >= 1
       ELSE ev'.requests >= 1]_vars

\* The webhook of g1 and g3 answered 429 with retry-after 2 at time 2; the call
\* for g3 at time 3 is suppressed.
C25_Witness ==
  /\ ev.op = "discord_notify"
  /\ ev.source_group = "g3"
  /\ ev.now = 3
  /\ ev.requests = 0
  /\ ~ev.ret
  /\ ~is_dry_run(environ)
  /\ "w1" \in DOMAIN limited
  /\ limited["w1"] = [t |-> 2, r |-> 2]
  /\ "w2" \notin DOMAIN limited

(***************************************************************************)
(* The snippet of a Job: the validator truncate_snippet of models.py.      *)
(***************************************************************************)

\* The longest snippet kept whole, and the characters kept of a longer one
\* (lines 31 and 32).
SnippetLimit == 2000

SnippetKept == 1997

\* Snippets are tried up to this length around the limit, and up to MaxShort
\* from the empty one.
MaxSnippet == 2003

MaxShort == 40

Ellipsis == <<".", ".", ".">>

\* The value given for snippet: None, or a text.
NoSnippet == [none |-> TRUE, text |-> << >>]

SnippetOf(n, c) == [none |-> FALSE, text |-> [i \in 1..n |-> IF i % 3 = 0 THEN c ELSE "x"]]

Snippets ==
  {NoSnippet}
    \cup {SnippetOf(n, c) :
            n \in (0..MaxShort) \cup {300, 500} \cup ((SnippetKept - 1)..MaxSnippet),
            c \in {"y", "."}}

\* Lines 31-32 with the cut at the limit: the marker is added to 2000 characters.
truncate_at_limit(v) ==
  IF ~v.none /\ Len(v.text) > SnippetLimit
  THEN SubSeq(v.text, 1, SnippetLimit) \o Ellipsis
  ELSE v.text

\* Job.truncate_snippet, lines 28-33; v or "" is the empty text for None.
truncate_snippet(v) ==
  IF ~v.none /\ v.text # << >> /\ Len(v.text) > SnippetLimit
  THEN SubSeq(v.text, 1, SnippetKept) \o Ellipsis
  ELSE IF v.none THEN << >> ELSE v.text

\* Job(..., snippet=v): the field holds what the validator returns.
ConstructJob ==
  /\ ev = NoEvent
  /\ \E v \in Snippets :
       ev' = [op |-> "Job", v |-> v, snippet |-> truncate_snippet(v)]
  /\ UNCHANGED <<notifier, reg, clock, last_polled, pc, fut, cur, jobs, db,
                 crashes, shutdown, tick, life>>

SnippetNext == ConstructJob

SnippetSpec == Init /\ [][SnippetNext]_vars

C27_Snippet500 ==
  (ev.op = "Job" /\ ~ev.v.none /\ Len(ev.v.text) = 500) =>
    /\ Len(ev.snippet) = 300
    /\ SubSeq(ev.snippet, 298, 300) = Ellipsis

\* C28: for a configuration that config.AppConfig builds, filter_job returns
\* without raising, and a posting that matches an include keyword and no
\* exclude keyword, with the level gate disabled, is returned as relevant.
C28_FilterJobCompletes ==
  (ev.op = "filter_job" /\ ev.config \in AppConfigs) =>
    /\ ev.ret.raised = "none"
    /\ LET f == ev.config.filtering
           text == SearchableOf(ev.job)
       IN  (/\ Matching(f.include_keywords, text) # << >>
            /\ Matching(f.exclude_keywords, text) = << >>
            /\ ~f.level_keywords.enabled) => ev.ret.relevant

\* C29: at the first tick of a process every registered fetcher is dispatched,
\* and at a later tick a fetcher is dispatched exactly when its interval has
\* elapsed since its own last dispatch, also when two registered fetchers have
\* the same source_group and source_name.
C29_EveryFetcherOnItsOwnSchedule ==
  [][ ev'.op = "dispatch" =>
        \A f \in Fetchers :
          f \in ev'.run <=>
            \/ life.lastrun[f] = 0
            \/ clock' - life.lastrun[f] >= reg[f].interval ]_vars

(***************************************************************************)
(* The loop of main over unboundedly many ticks.                           *)
(***************************************************************************)

\* time.sleep, line 232, at the end of the modelled span of time: from here on
\* times are measured from an origin one unit later.  poll_once uses the clock
\* only in now - last_polled (line 123); the times in the store are not read.
Rebase ==
  /\ pc = "sleep"
  /\ ~shutdown
  /\ clock = MaxTime
  /\ clock' = clock - 1
  /\ last_polled' = [k \in DOMAIN last_polled |-> last_polled[k] - 1]
  /\ life' = [life EXCEPT
                !.lastfail = [f \in Fetchers |-> IF @[f] = 0 THEN 0 ELSE @[f] - 1],
                !.lastrun = [f \in Fetchers |-> IF @[f] = 0 THEN 0 ELSE @[f] - 1]]
  /\ ev' = [op |-> "sleep"]
  /\ UNCHANGED <<notifier, reg, pc, fut, cur, jobs, db, crashes, shutdown, tick>>

\* One source that lists the postings, and one that lists nothing.
RegRetry ==
  << [group |-> "g1", name |-> "A", interval |-> 1, uids |-> Uids],
     [group |-> "g2", name |-> "B", interval |-> 2, uids |-> {}] >>

RetryInit == Start({RegRetry}, StartTime)

RetryNext ==
  \/ Poll
  \/ Rebase

\* The process runs: while it can take a step it takes one.
RetrySpec == RetryInit /\ [][RetryNext]_vars /\ WF_vars(RetryNext)

\* The first source's fetch was consumed and its list holds u1 as a relevant posting.
Returned(u) ==
  \E i \in 1..Len(jobs) : jobs[i].uid = u /\ filter_job(jobs[i]) = "pass"

\* C30: if the first source returns the posting u1 as relevant on every fetch
\* while u1 is not committed, ticks keep occurring, and some call of notify
\* for u1 returns true, then u1 is eventually committed to the seen-set.
C30_RetryLiveness ==
  ( /\ []((ev.op = "collect" /\ ev.f = 1 /\ ~OnDisk("u1")) => Returned("u1"))
    /\ []<>(ev.op = "dispatch" /\ 1 \in ev.run)
    /\ <>(ev.op = "notify" /\ ev.uid = "u1" /\ ev.ok) )
  => <>OnDisk("u1")

\* C31: when poll_once returns, every identity notify returned true for in
\* that tick is in the seen-set, whatever failed in the tick; and notify does
\* not return true for an identity it returned true for in an earlier tick.
C31_NotifiedRecordedByTickEnd ==
  [][ /\ ev'.op = "poll_return" => \A u \in tick.sent : is_seen(db, u)
      /\ (ev'.op = "notify" /\ ev'.ok) =>
            ev'.uid \notin (life.notified \ tick.sent) ]_vars

(***************************************************************************)
(* poll_once with a notifier that can raise (discord_notifier.py, line     *)
(* 109 inside the handler of line 107).                                    *)
(***************************************************************************)

\* Line 159: notify raises; nothing was committed for the posting.
JobNotifyRaises ==
  /\ pc = "job"
  /\ jobs # << >>
  /\ ~is_seen(db, Job.uid)
  /\ filter_job(Job) = "pass"
  /\ Abort("notify", "notify")
  /\ UNCHANGED <<notifier, reg, clock, last_polled, fut, cur, db, crashes, shutdown, life>>

IsolateInit == Start({RegUnique}, StartTime)

IsolateNext ==
  \/ Poll
  \/ JobNotifyRaises

IsolateSpec == IsolateInit /\ [][IsolateNext]_vars

\* C32: an exception raised while a posting of a source's list is processed,
\* in the filter, the notifier or the store, drops the rest of that list for
\* the tick: nothing more of it is notified or committed, what is on disk
\* stays, the other sources' futures are left to be consumed, and poll_once
\* returns only after all of them were, keeping what was notified so far.
C32_ExceptionConfinedToSource ==
  [][ /\ ev'.op = "except" =>
            /\ ev'.at \in {"filter_job", "notify", "is_seen", "mark_seen"}
            /\ ev'.f = cur /\ cur' = cur
            /\ jobs' = << >>
            /\ pc' = "wait"
            /\ db'.disk = db.disk
            /\ tick'.sent = tick.sent
            /\ fut' = fut
      /\ (cur # 0 /\ cur' = cur /\ tick.exc[cur] # "none") =>
            /\ ev'.op \notin {"notify", "mark", "filter", "skip"}
            /\ db'.disk = db.disk
      /\ (ev'.op = "collect" /\ ev'.f # cur /\ cur # 0) => pc = "wait"
      /\ ev'.op = "poll_return" =>
            /\ pc' = "sleep"
            /\ AllConsumed
            /\ tick'.sent = tick.sent ]_vars

\* poll_once returns from a tick in which notify raised for a posting of
\* fetcher 1, after another posting of its list had been notified and
\* committed, and in which the posting of fetcher 2, consumed afterwards, was
\* notified and committed.
C32_Witness ==
  /\ ev.op = "poll_return" /\ cur = 2
  /\ tick.exc[1] = "notify" /\ tick.exc[2] = "none"
  /\ tick.sent = {"u1", "u2"}
  /\ OnDisk("u1") /\ OnDisk("u2")
  /\ tick.solo[2] \in {"u1", "u2"}

\* C33: within one tick notify returns true at most once for an identity,
\* however many postings of the tick's lists carry it, and the identity is
\* committed once: mark_seen is called for an identity not yet on disk and
\* leaves one row for it.
C33_OncePerIdentityAndTick ==
  [][ /\ (ev'.op = "notify" /\ ev'.ok) => ev'.uid \notin tick.sent
      /\ ev'.op = "mark" =>
            /\ ~Durable(db, ev'.uid)
            /\ Cardinality({r \in Rows(db') : r.uid = ev'.uid}) = 1 ]_vars

\* A worker thread takes the step: the safe_fetch of a running future ends.
WorkerStep == \E f \in Fetchers : fut[f] = "running" /\ fut'[f] # "running"

\* The calls poll_once makes for a posting.
PostingSteps == {"skip", "filter", "notify", "mark", "except"}

\* C34: a worker only ends its fetch: it leaves the store, the list being
\* processed and the control thread where they are; every is_seen, filter_job,
\* notify and mark_seen call and every change of the store is a step of the
\* control thread on the list of the one future it has consumed last, and the
\* next list is taken only when that list is finished.
C34_StoreCallsInControlThread ==
  [][ /\ WorkerStep =>
            /\ db' = db /\ jobs' = jobs /\ pc' = pc /\ cur' = cur
            /\ last_polled' = last_polled
            /\ ev'.op \notin PostingSteps
            /\ Cardinality({f \in Fetchers : fut'[f] # fut[f]}) = 1
      /\ (ev'.op \in PostingSteps \/ db' # db) =>
            /\ pc \in {"job", "mark"}
            /\ cur # 0 /\ cur' = cur
            /\ fut[cur] \in {"consumed", "consumed_failed"}
            /\ fut' = fut
      /\ ev'.op = "collect" =>
            /\ pc = "wait"
            /\ jobs = << >> ]_vars

\* The control thread is between notify and mark_seen for a posting of one
\* source while the fetch of the other source is still running.
C34_Witness ==
  /\ pc = "mark"
  /\ ev.op = "notify" /\ ev.ok
  /\ cur = 2 /\ fut[2] = "consumed" /\ fut[1] = "running"

\* C35: last_polled changes only in the step of the control thread that
\* determines the due fetchers, taken between two ticks before any fetch of
\* the new tick is submitted, and only in the entries of the fetchers it
\* dispatches, which become the time of the tick; no step of a worker and no
\* step of the tick under way changes it.
C35_LastPolledWrittenAtDispatch ==
  [][ /\ last_polled' # last_polled =>
            /\ ev'.op = "dispatch"
            /\ pc = "sleep"
            /\ \A f \in Fetchers : fut[f] # "running"
            /\ \A k \in DOMAIN last_polled' :
                 Get(last_polled, k, 0) # last_polled'[k] =>
                   /\ last_polled'[k] = clock'
                   /\ \E f \in ev'.run : Key(f) = k
      /\ (pc \in InTick \/ WorkerStep) => last_polled' = last_polled ]_vars

\* A posting is being processed in a tick that dispatched fetcher 1 alone:
\* the entry of fetcher 2 is that of an earlier tick.
C35_Witness ==
  /\ pc = "job" /\ jobs # << >> /\ cur = 1
  /\ fut[2] = "none"
  /\ Key(1) \in DOMAIN last_polled /\ Key(2) \in DOMAIN last_polled
  /\ last_polled[Key(1)] = clock
  /\ last_polled[Key(2)] < clock

(***************************************************************************)
(* The cadence of the loop of main: the intervals of build_fetchers and    *)
(* the sleep of line 232, in seconds.                                      *)
(***************************************************************************)

\* Line 232: the longest sleep.
MaxSleep == 60

\* The loop is followed from PauseStart, a time later than every interval,
\* for PauseSpan seconds.
PauseStart == 1000

PauseSpan == 240

\* The sources of a configuration: two items, each with or without its own
\* poll_interval_seconds (a set with the value, or empty).
Overrides == {{}, {10}, {30}, {120}}

PauseConfigs ==
  {[poll_interval_seconds |-> g,
    sources |-> << [name |-> "A", group |-> "g1", poll_interval_seconds |-> a],
                   [name |-> "B", group |-> "g2", poll_interval_seconds |-> b] >>] :
     g \in {10, 60, DefaultPollInterval}, a \in Overrides, b \in Overrides}

\* dict.get(key, default) for an item's optional value.
GetOr(opt, default) == IF opt = {} THEN default ELSE CHOOSE x \in opt : TRUE

\* build_fetchers, lines 86-107: a fetcher per item, with the item's interval or
\* else the global one; the sites list nothing.
build_fetchers(c) ==
  [i \in DOMAIN c.sources |->
     [group |-> c.sources[i].group, name |-> c.sources[i].name,
      interval |-> GetOr(c.sources[i].poll_interval_seconds, c.poll_interval_seconds),
      uids |-> {}]]

\* Line 232: what main sleeps between two ticks.
pause(c) == Min({c.poll_interval_seconds, MaxSleep})

\* One round of the loop of main, lines 228-232, over sites that list nothing
\* and answer at once: poll_once finds the due fetchers at the time now
\* (lines 117-127), their fetches return [], and main sleeps.
LoopRound ==
  /\ pc = "sleep"
  /\ ~shutdown
  /\ clock + pause(app_config) <= PauseStart + PauseSpan
  /\ LET due == DueLoop(1, clock, last_polled, {})
     IN  /\ last_polled' = due.last_polled
         /\ ev' = [op |-> "round", now |-> clock, run |-> due.to_run,
                   sleep |-> pause(app_config),
                   since |-> [f \in Fetchers |->
                                IF life.lastrun[f] = 0 THEN 0
                                ELSE clock - life.lastrun[f]]]
         /\ life' = [life EXCEPT
                       !.lastrun = [f \in Fetchers |->
                                      IF f \in due.to_run THEN clock ELSE @[f]]]
  /\ clock' = clock + pause(app_config)
  /\ UNCHANGED <<notifier, reg, pc, fut, cur, jobs, db, crashes, shutdown, tick>>

PauseInit ==
  \E c \in PauseConfigs : StartWith({build_fetchers(c)}, PauseStart, {Hooks}, {c})

PauseNext == LoopRound

PauseSpec == PauseInit /\ [][PauseNext]_vars

\* C36: main sleeps the smaller of 60 seconds and the smallest interval of a
\* registered fetcher, and a fetcher whose own interval is shorter than 60
\* seconds and than the global interval is dispatched once per its interval:
\* when it is dispatched again, its interval has passed since its last dispatch.
C36_PauseIsMinInterval ==
  ev.op = "round" =>
    /\ ev.sleep = Min({60} \cup {reg[f].interval : f \in Fetchers})
    /\ \A f \in Fetchers :
         ( /\ reg[f].interval < 60
           /\ reg[f].interval < app_config.poll_interval_seconds
           /\ f \in ev.run
           /\ ev.since[f] # 0 ) => ev.since[f] = reg[f].interval

\* A stage before the level gate rejects the posting: an exclude keyword
\* matches, the years exceed the ceiling, the location is not allowed, or
\* there are include keywords and none matches.
RejectedBeforeGate(job, c) ==
  LET f == c.filtering
      text == SearchableOf(job)
  IN  \/ AnyMatches(f.exclude_keywords, text)
      \/ \E m \in f.max_experience_years : exceeds_experience_years(text, m)
      \/ f.location.enabled /\ ~is_allowed_location(job.location, f.location)
      \/ f.include_keywords # << >> /\ ~AnyMatches(f.include_keywords, text)

\* The level gate is enabled with at least one term and no term matches.
GateFails(job, c) ==
  LET l == c.filtering.level_keywords
  IN  l.enabled /\ l.terms # << >> /\ ~AnyMatches(l.terms, SearchableOf(job))

\* C37: a posting that reaches the level gate and fails it is returned as
\* (false, the include keywords that match, in order); a posting rejected by
\* a stage before the gate is returned as (false, []).
C37_GateRejectionKeepsMatched ==
  ev.op = "filter_job" =>
    /\ (GateFails(ev.job, ev.config) /\ ~RejectedBeforeGate(ev.job, ev.config)) =>
          ev.ret = Return(FALSE, Matching(ev.config.filtering.include_keywords,
                                          SearchableOf(ev.job)))
    /\ RejectedBeforeGate(ev.job, ev.config) => ev.ret = Return(FALSE, << >>)

\* What the tier a call resolves in reads: the raw id, the canonical URL, or
\* the fields with None read as ''.
TierInput(a) ==
  CASE tier_of(a.raw_id, a.url) = "raw" -> a.raw_id
    [] tier_of(a.raw_id, a.url) = "url" -> canonicalize_url(a.url)
    [] tier_of(a.raw_id, a.url) = "hash" ->
         <<OrEmpty(a.title), OrEmpty(a.company), << >>, << >>>>

SameTierInput(a, b) ==
  /\ a.source_group = b.source_group
  /\ tier_of(a.raw_id, a.url) = tier_of(b.raw_id, b.url)
  /\ TierInput(a) = TierInput(b)

\* C38: two calls of generate_uid return the same identity only if they have
\* the same source group and resolve in the same tier with the same tier
\* input, also when source groups, raw ids or fields contain ":" or a raw id
\* begins with "url:".
C38_IdentityInjective ==
  (ev.op = "generate_uid_pair" /\ ev.ret_a = ev.ret_b) => SameTierInput(ev.a, ev.b)

\* C38 for arguments without ":" in the source group, the raw id and the
\* fields: there the identities are equal only for the same tier input.
HasColon(x) == \E i \in 1..Len(x) : x[i] = ":"

ColonFree(a) ==
  /\ ~HasColon(a.source_group)
  /\ ~HasColon(a.raw_id)
  /\ ~HasColon(a.title)
  /\ ~HasColon(a.company)

C38_InjectiveWithoutSeparator ==
  (/\ ev.op = "generate_uid_pair"
   /\ ColonFree(ev.a)
   /\ ColonFree(ev.b)
   /\ ev.ret_a = ev.ret_b) => SameTierInput(ev.a, ev.b)

\* C39: for a text whose only number in front of "years" has three or more
\* digits, exceeds_experience_years returns false for every ceiling.
C39_LongNumberIsNoYearCount ==
  (/\ ev.op = "exceeds_experience_years"
   /\ ev.text \in {e.text : e \in LongNumberTexts}) => ~ev.ret

\* What the code returns for such a text: whether the number's last two
\* digits exceed the ceiling.
C39_LastTwoDigitsCount ==
  (/\ ev.op = "exceeds_experience_years"
   /\ ev.text \in {e.text : e \in LongNumberTexts}) =>
     (ev.ret <=> \E n \in ev.nums : n > ev.max_years)

====
